---- MODULE Spec2Model ----
(***************************************************************************)
(* kvartersmenyn-cli: the filtering pipeline of main.go (main's per-area   *)
(* loop, filterRestaurants, filterByMenu, filterCombined, the matchers,    *)
(* normalizeToken and fuzzThreshold), the extractor (parseRestaurants,     *)
(* extractMenuLines, splitAddressAndPhone), mergeOptions, the page cache   *)
(* (loadAreaReader, tryCache, cacheAndWrap) and the interactive setup      *)
(* (promptAndSaveConfig, parseAreaURL).                                    *)
(*                                                                         *)
(* A Go string is modelled as a sequence of characters.  A character is    *)
(* one of the names below; each stands for a class of runes (or for a      *)
(* byte that is not valid UTF-8) and carries the number of bytes of its    *)
(* UTF-8 encoding, because len() in Go counts bytes.                       *)
(*   "a"    a lower-case ASCII letter                       1 byte         *)
(*   "A"    the upper-case form of "a"                      1 byte         *)
(*   "1"    an ASCII digit                                  1 byte         *)
(*   "-"    ASCII punctuation                               1 byte         *)
(*   " "    the ASCII space                                 1 byte         *)
(*   "Ax"   U+023A, an upper-case letter                    2 bytes        *)
(*   "ax"   U+2C65, the lower-case form of U+023A           3 bytes        *)
(*   "BAD"  a byte that is not valid UTF-8 (0xFF)           1 byte         *)
(*   "FFFD" U+FFFD, the replacement character (a symbol)    3 bytes        *)
(* The extractor's texts have, besides these,                              *)
(*   "LF"   the line feed                                   1 byte         *)
(*   "NBSP" U+00A0, the non-breaking space                  2 bytes        *)
(*   "T", "t", "E", "e", "L", "l", "D", "d", "R", "r", "S", "s", "I"       *)
(*          the ASCII letters of the labels                 1 byte         *)
(*   ":"    the colon                                       1 byte         *)
(*   "dotless_i"  U+0131, whose upper case is "I"           2 bytes        *)
(*   "turned_a"   U+0250, a lower-case letter               2 bytes        *)
(*   "Turned_A"   U+2C6F, the upper-case form of U+0250     3 bytes        *)
(***************************************************************************)
EXTENDS Integers, Sequences, FiniteSets, TLC

VARIABLES
    pc,             \* position of main / of the function under evaluation
    flagsName,      \* flags.Name   (--name,   main.go:77)
    flagsMenu,      \* flags.Menu   (--menu,   main.go:79)
    flagsSearch,    \* flags.Search (--search, main.go:81)
    optsName,       \* opts.Name   (Options.Name,   main.go:39)
    optsMenu,       \* opts.Menu   (Options.Menu,   main.go:41)
    optsSearch,     \* opts.Search (Options.Search, main.go:40)
    nameQuery,      \* main's local nameQuery     (main.go:156)
    menuQuery,      \* main's local menuQuery     (main.go:157)
    combinedQuery,  \* main's local combinedQuery (main.go:158)
    areaIdx,        \* index of the area the loop of main.go:161 is at
    parsed,         \* what parseRestaurants returned for the current area
    restaurants,    \* main's local restaurants (main.go:167, 180..186)
    calls,          \* per area, the filter calls made and their arguments
    panicOn,        \* the texts on which fuzzy.RankMatchFold panics
    argText,        \* input of the function under evaluation: a field
    argQuery,       \* input of the function under evaluation: a query
    argDist,        \* input of the function under evaluation: maxDistance
    argLenA,        \* input of fuzzThreshold: a length
    argLenB,        \* input of fuzzThreshold: another length
    result,         \* what the function under evaluation returned
    runOpts,        \* the Options mergeOptions returned (main.go:141)
    files,          \* the cache directory: file name -> modification time
                    \* and content
    now,            \* the clock, in hours
    load,           \* what the last call of loadAreaReader did and returned
    setupAreas,     \* promptAndSaveConfig's local areas (main.go:347)
    setupCity,      \* promptAndSaveConfig's local defaultCity (main.go:348)
    entered,        \* the targets the user has entered, in order
    reads           \* lines read from standard input so far

vars == <<pc, flagsName, flagsMenu, flagsSearch, optsName, optsMenu,
          optsSearch, nameQuery, menuQuery, combinedQuery, areaIdx, parsed,
          restaurants, calls, panicOn,
          argText, argQuery, argDist, argLenA, argLenB, result,
          runOpts, files, now, load, setupAreas, setupCity, entered, reads>>

mainVars == <<flagsName, flagsMenu, flagsSearch, optsName, optsMenu,
              optsSearch, nameQuery, menuQuery, combinedQuery, areaIdx,
              parsed, restaurants, calls>>

cacheVars == <<runOpts, files, now, load>>

setupVars == <<setupAreas, setupCity, entered, reads>>

argVars == <<argText, argQuery, argDist, argLenA, argLenB, cacheVars,
             setupVars>>

----------------------------------------------------------------------------
(* Bounds *)

MaxTextLen == 3      \* characters in a text given to normalizeToken
MaxFieldLen == 4     \* characters in a field given to a matcher
MaxQueryLen == 2     \* characters in a query given to a matcher
MaxLength == 10      \* largest length given to fuzzThreshold
MaxRestaurants == 2  \* restaurants on one page
NumAreas == 2        \* len(opts.Areas)
MaxClock == 2        \* hours the clock runs
MaxReads == 4        \* lines on standard input before it is exhausted
MaxPieces == 4       \* pieces an address field is put together from
MaxMenuNodes == 3    \* children of the menu paragraph
MaxBlocks == 2       \* restaurant blocks in a document

----------------------------------------------------------------------------
(* Characters and strings *)

Chars == {"a", "A", "1", "-", " ", "Ax", "ax", "BAD", "FFFD"}

\* utf8.RuneLen, and 1 for a byte that is not valid UTF-8
Width(c) ==
    CASE c \in {"Ax", "NBSP", "dotless_i", "turned_a"} -> 2
      [] c \in {"ax", "FFFD", "Turned_A"} -> 3
      [] OTHER -> 1

IsLetter(c) == c \in {"a", "A", "Ax", "ax"}

IsDigit(c) == c = "1"

\* unicode.ToLower
ToLowerRune(c) ==
    CASE c = "A" -> "a"
      [] c = "Ax" -> "ax"
      [] OTHER -> c

\* unicode.ToUpper
ToUpperRune(c) ==
    CASE c = "a" -> "A"
      [] c = "ax" -> "Ax"
      [] c = "t" -> "T"
      [] c = "e" -> "E"
      [] c = "l" -> "L"
      [] c = "d" -> "D"
      [] c = "r" -> "R"
      [] c = "s" -> "S"
      [] c = "dotless_i" -> "I"
      [] c = "turned_a" -> "Turned_A"
      [] OTHER -> c

\* unicode.IsSpace
IsSpace(c) == c \in {" ", "LF", "NBSP"}

RECURSIVE SeqsUpTo(_, _)
SeqsUpTo(S, n) ==
    IF n = 0 THEN {<<>>}
    ELSE LET shorter == SeqsUpTo(S, n - 1)
         IN shorter \cup {Append(s, c) : s \in shorter, c \in S}

\* len(s): the number of bytes of a Go string
RECURSIVE ByteLen(_)
ByteLen(s) == IF s = <<>> THEN 0 ELSE Width(Head(s)) + ByteLen(Tail(s))

\* strings.ToLower: every rune through unicode.ToLower; a byte that is not
\* valid UTF-8 comes out as U+FFFD (strings.Map)
ToLower(s) ==
    [i \in 1..Len(s) |-> IF s[i] = "BAD" THEN "FFFD" ELSE ToLowerRune(s[i])]

IsValidRune(c) == c # "BAD"

\* strings.ToValidUTF8(s, ""): the invalid bytes removed
ToValidUTF8(s) == SelectSeq(s, IsValidRune)

\* strings.Contains
Contains(s, sub) ==
    \E i \in 0..(Len(s) - Len(sub)) : SubSeq(s, i + 1, i + Len(sub)) = sub

\* strings.TrimSpace
RECURSIVE TrimLeft(_)
TrimLeft(s) ==
    IF s # <<>> /\ IsSpace(Head(s)) THEN TrimLeft(Tail(s)) ELSE s

RECURSIVE TrimRight(_)
TrimRight(s) ==
    IF s # <<>> /\ IsSpace(s[Len(s)])
    THEN TrimRight(SubSeq(s, 1, Len(s) - 1)) ELSE s

TrimSpace(s) == TrimRight(TrimLeft(s))

\* strings.Join(lines, " ")
RECURSIVE Join(_)
Join(lines) ==
    IF lines = <<>> THEN <<>>
    ELSE IF Len(lines) = 1 THEN lines[1]
    ELSE lines[1] \o <<" ">> \o Join(Tail(lines))

\* strings.ToUpper: every rune through unicode.ToUpper; a byte that is not
\* valid UTF-8 comes out as U+FFFD (strings.Map)
ToUpper(s) ==
    [i \in 1..Len(s) |-> IF s[i] = "BAD" THEN "FFFD" ELSE ToUpperRune(s[i])]

\* strings.HasPrefix and strings.TrimPrefix
HasPrefix(s, prefix) ==
    Len(s) >= Len(prefix) /\ SubSeq(s, 1, Len(prefix)) = prefix

TrimPrefix(s, prefix) ==
    IF HasPrefix(s, prefix) THEN SubSeq(s, Len(prefix) + 1, Len(s)) ELSE s

\* strings.Fields: the maximal runs of characters that are not white space
RECURSIVE FieldsFrom(_, _, _)
FieldsFrom(s, word, words) ==
    LET closed == IF word = <<>> THEN words ELSE Append(words, word)
    IN IF s = <<>> THEN closed
       ELSE IF IsSpace(Head(s)) THEN FieldsFrom(Tail(s), <<>>, closed)
       ELSE FieldsFrom(Tail(s), Append(word, Head(s)), words)

FieldsOf(s) == FieldsFrom(s, <<>>, <<>>)

\* strings.ReplaceAll(s, "\u00a0", " ")
ReplaceNBSP(s) == [i \in 1..Len(s) |-> IF s[i] = "NBSP" THEN " " ELSE s[i]]

\* The bytes of a Go string: byte k of character c is <<c, k>>.
RECURSIVE Bytes(_)
Bytes(s) ==
    IF s = <<>> THEN <<>>
    ELSE [k \in 1..Width(Head(s)) |-> <<Head(s), k>>] \o Bytes(Tail(s))

\* A byte sequence read as a string: the bytes of a whole character are that
\* character, every other byte is a byte that is not valid UTF-8.
RECURSIVE Runes(_)
Runes(bytes) ==
    IF bytes = <<>> THEN <<>>
    ELSE LET c == bytes[1][1]
             w == Width(c)
             whole == /\ Len(bytes) >= w
                      /\ \A k \in 1..w : bytes[k] = <<c, k>>
         IN IF whole THEN <<c>> \o Runes(SubSeq(bytes, w + 1, Len(bytes)))
            ELSE <<"BAD">> \o Runes(Tail(bytes))

\* strings.Index on bytes: the offset of the first occurrence, or -1
Index(bytes, sub) ==
    LET at(i) == SubSeq(bytes, i + 1, i + Len(sub)) = sub
        offsets == {i \in 0..(Len(bytes) - Len(sub)) : at(i)}
    IN IF offsets = {} THEN -1
       ELSE CHOOSE i \in offsets : \A j \in offsets : i <= j

----------------------------------------------------------------------------
(* normalizeToken and fuzzThreshold *)

IsLetterOrDigit(c) == IsLetter(c) \/ IsDigit(c)

\* a normalizeToken that folds the case with unicode.SimpleFold
normalizeTokenSimpleFold(s) ==
    LET valid == ToValidUTF8(s)
        kept == SelectSeq(valid, IsLetterOrDigit)
        fold(c) == CASE c = "A" -> "a"
                     [] c = "a" -> "A"
                     [] c = "Ax" -> "ax"
                     [] c = "ax" -> "Ax"
                     [] OTHER -> c
    IN [i \in 1..Len(kept) |-> fold(kept[i])]

normalizeToken(s) ==
    LET valid == ToValidUTF8(s)
        kept == SelectSeq(valid, IsLetterOrDigit)
    IN [i \in 1..Len(kept) |-> ToLowerRune(kept[i])]

\* a fuzzThreshold whose first boundary is off by one
fuzzThresholdOffByOne(length) ==
    IF length < 3 THEN 1 ELSE IF length <= 6 THEN 2 ELSE 3

fuzzThreshold(length) ==
    IF length <= 3 THEN 1 ELSE IF length <= 6 THEN 2 ELSE 3

----------------------------------------------------------------------------
(* github.com/lithammer/fuzzysearch v1.1.5, fuzzy.RankMatchFold, as called  *)
(* at main.go:578                                                           *)

\* index of the first occurrence of rune r in target, 0 if there is none
FirstIndex(target, r) ==
    IF \E i \in 1..Len(target) : target[i] = r
    THEN CHOOSE i \in 1..Len(target) :
             /\ target[i] = r
             /\ \A j \in 1..(i - 1) : target[j] # r
    ELSE 0

\* the Outer loop of rank: every rune of source is looked for in what is
\* left of target, each rune skipped on the way counts as one, and the runes
\* left over at the end count as well; -1 when a rune is not found
RECURSIVE rankLoop(_, _, _)
rankLoop(source, target, runeDiff) ==
    IF source = <<>> THEN runeDiff + Len(target)
    ELSE LET i == FirstIndex(target, Head(source))
         IN IF i = 0 THEN -1
            ELSE rankLoop(Tail(source), SubSeq(target, i + 1, Len(target)),
                          runeDiff + (i - 1))

RankMatchFold(source, target) ==
    LET lenDiff == ByteLen(target) - ByteLen(source)
        src == [i \in 1..Len(source) |-> ToLowerRune(source[i])]
        tgt == [i \in 1..Len(target) |-> ToLowerRune(target[i])]
    IN IF lenDiff < 0 THEN -1
       ELSE IF lenDiff = 0 /\ src = tgt THEN 0
       ELSE rankLoop(src, tgt, 0)

----------------------------------------------------------------------------
(* The matchers.  A Go call either returns or panics; what the source       *)
(* leaves implicit is explicit here: a matcher yields                       *)
(*   matched   the boolean it returns,                                      *)
(*   ranked    whether it called safeRankMatchFold,                         *)
(*   panicked  whether a panic left the call instead of a return.           *)

\* main.go:578: the call of the library, which panics on the texts of
\* panicOn and returns a distance on every other
callRankMatchFold(query, text) ==
    IF text \in panicOn
    THEN [panics |-> TRUE, dist |-> 0]
    ELSE [panics |-> FALSE, dist |-> RankMatchFold(query, text)]

\* a safeRankMatchFold without the deferred recover
safeRankMatchFoldNoRecover(query, text) ==
    LET q == ToValidUTF8(query)
        t == ToValidUTF8(text)
        call == callRankMatchFold(q, t)
    IN IF call.panics
       THEN [dist |-> 0, ok |-> FALSE, panicked |-> TRUE]
       ELSE [dist |-> call.dist, ok |-> TRUE, panicked |-> FALSE]

\* The deferred recover stops the panic; the function then returns the zero
\* values of its unnamed results, (0, false).
safeRankMatchFold(query, text) ==
    LET q == ToValidUTF8(query)
        t == ToValidUTF8(text)
        call == callRankMatchFold(q, t)
    IN IF call.panics
       THEN [dist |-> 0, ok |-> FALSE, panicked |-> FALSE]
       ELSE [dist |-> call.dist, ok |-> TRUE, panicked |-> FALSE]

Returned(b) == [matched |-> b, ranked |-> FALSE, panicked |-> FALSE]

\* main.go:543-546 and 608-611: the distance decides, unless the call failed
Ranked(rank, maxDistance) ==
    [matched |-> ~rank.panicked /\ rank.ok
                 /\ rank.dist >= 0 /\ rank.dist <= maxDistance,
     ranked |-> TRUE,
     panicked |-> rank.panicked]

\* a matchesName without the raw containment tier
matchesNameNoRawTier(name, queryLower, maxDistance) ==
    LET lowerName == ToLower(name)
        normName == normalizeToken(lowerName)
        normQuery == normalizeToken(queryLower)
    IN IF normQuery # <<>> /\ Contains(normName, normQuery)
       THEN Returned(TRUE)
       ELSE Ranked(safeRankMatchFold(normQuery, normName), maxDistance)

matchesName(name, queryLower, maxDistance) ==
    LET lowerName == ToLower(name)
        normName == normalizeToken(lowerName)
        normQuery == normalizeToken(queryLower)
    IN IF Contains(lowerName, queryLower) THEN Returned(TRUE)
       ELSE IF normQuery # <<>> /\ Contains(normName, normQuery)
       THEN Returned(TRUE)
       ELSE Ranked(safeRankMatchFold(normQuery, normName), maxDistance)

\* a matchesText that computes the distance before it looks at containment
matchesTextRankFirst(text, rawQuery, normQuery, maxDistance) ==
    LET normText == normalizeToken(text)
        rank == safeRankMatchFold(normQuery, normText)
    IN IF Contains(text, rawQuery)
       THEN [matched |-> TRUE, ranked |-> TRUE, panicked |-> rank.panicked]
       ELSE IF normQuery # <<>> /\ Contains(normText, normQuery)
       THEN [matched |-> TRUE, ranked |-> TRUE, panicked |-> rank.panicked]
       ELSE IF normQuery = <<>> THEN Returned(FALSE)
       ELSE Ranked(rank, maxDistance)

\* a matchesText that accepts every distance that is not negative
matchesTextNoUpperBound(text, rawQuery, normQuery, maxDistance) ==
    LET normText == normalizeToken(text)
        rank == safeRankMatchFold(normQuery, normText)
    IN IF Contains(text, rawQuery) THEN Returned(TRUE)
       ELSE IF normQuery # <<>> /\ Contains(normText, normQuery)
       THEN Returned(TRUE)
       ELSE IF normQuery = <<>> THEN Returned(FALSE)
       ELSE [matched |-> rank.ok /\ rank.dist >= 0,
             ranked |-> TRUE, panicked |-> rank.panicked]

matchesText(text, rawQuery, normQuery, maxDistance) ==
    LET normText == normalizeToken(text)
    IN IF Contains(text, rawQuery) THEN Returned(TRUE)
       ELSE IF normQuery # <<>> /\ Contains(normText, normQuery)
       THEN Returned(TRUE)
       ELSE IF normQuery = <<>> THEN Returned(FALSE)
       ELSE Ranked(safeRankMatchFold(normQuery, normText), maxDistance)

----------------------------------------------------------------------------
(* The filters.  A filter yields the records it returns and whether a panic *)
(* left it instead.                                                         *)

\* a filterRestaurants that measures the normalized query, as filterByMenu
\* does
filterRestaurantsMaxDistanceNormalized(query) ==
    fuzzThreshold(ByteLen(normalizeToken(ToLower(query))))

\* maxDistance of filterRestaurants: the length of the query as given
\* (main.go:519)
filterRestaurantsMaxDistance(query) == fuzzThreshold(ByteLen(query))

\* maxDistance of filterByMenu: the length of the normalized query
\* (main.go:583-585)
filterByMenuMaxDistance(query) ==
    fuzzThreshold(ByteLen(normalizeToken(ToLower(query))))

\* maxName and maxMenu of filterCombined: the length of the normalized
\* query (main.go:615-622)
filterCombinedMaxDistance(query) ==
    fuzzThreshold(ByteLen(normalizeToken(ToLower(TrimSpace(query)))))

\* main.go:589 and 633
menuTextOf(r) == ToLower(Join(r.Menu))

\* a filter loop that puts each record it keeps before the ones kept so far
RECURSIVE KeptNewestFirst(_, _)
KeptNewestFirst(rs, keep) ==
    IF rs = <<>> THEN <<>>
    ELSE KeptNewestFirst(Tail(rs), Tail(keep))
         \o (IF Head(keep) THEN <<Head(rs)>> ELSE <<>>)

\* the loop of a filter: the records whose verdict is to keep them, in
\* order (main.go:521-527)
RECURSIVE Kept(_, _)
Kept(rs, keep) ==
    IF rs = <<>> THEN <<>>
    ELSE (IF Head(keep) THEN <<Head(rs)>> ELSE <<>>)
         \o Kept(Tail(rs), Tail(keep))

filterRestaurants(rs, query) ==
    LET queryLower == ToLower(query)
        maxDistance == filterRestaurantsMaxDistance(query)
        m == [i \in 1..Len(rs) |->
                 matchesName(rs[i].Name, queryLower, maxDistance)]
    IN [records |-> Kept(rs, [i \in 1..Len(rs) |-> m[i].matched]),
        panicked |-> \E i \in 1..Len(rs) : m[i].panicked]

filterByMenu(rs, query) ==
    LET queryLower == ToLower(query)
        normQuery == normalizeToken(queryLower)
        maxDistance == filterByMenuMaxDistance(query)
        m == [i \in 1..Len(rs) |->
                 matchesText(menuTextOf(rs[i]), queryLower, normQuery,
                             maxDistance)]
    IN [records |-> Kept(rs, [i \in 1..Len(rs) |-> m[i].matched]),
        panicked |-> \E i \in 1..Len(rs) : m[i].panicked]

\* a filterCombined that keeps a record only when both sides match
filterCombinedBothSides(rs, nameQ, menuQ) ==
    LET nameLower == ToLower(TrimSpace(nameQ))
        menuLower == ToLower(TrimSpace(menuQ))
        normMenu == normalizeToken(menuLower)
        maxName == filterCombinedMaxDistance(nameQ)
        maxMenu == filterCombinedMaxDistance(menuQ)
        matchedName == [i \in 1..Len(rs) |->
            IF nameLower # <<>>
            THEN matchesName(rs[i].Name, nameLower, maxName)
            ELSE Returned(FALSE)]
        matchedMenu == [i \in 1..Len(rs) |->
            IF menuLower # <<>>
            THEN matchesText(menuTextOf(rs[i]), menuLower, normMenu, maxMenu)
            ELSE Returned(FALSE)]
    IN [records |-> Kept(rs, [i \in 1..Len(rs) |->
                        matchedName[i].matched /\ matchedMenu[i].matched]),
        panicked |-> \E i \in 1..Len(rs) :
                        matchedName[i].panicked \/ matchedMenu[i].panicked]

filterCombined(rs, nameQ, menuQ) ==
    LET nameLower == ToLower(TrimSpace(nameQ))
        menuLower == ToLower(TrimSpace(menuQ))
        normMenu == normalizeToken(menuLower)
        maxName == filterCombinedMaxDistance(nameQ)
        maxMenu == filterCombinedMaxDistance(menuQ)
        matchedName == [i \in 1..Len(rs) |->
            IF nameLower # <<>>
            THEN matchesName(rs[i].Name, nameLower, maxName)
            ELSE Returned(FALSE)]
        matchedMenu == [i \in 1..Len(rs) |->
            IF menuLower # <<>>
            THEN matchesText(menuTextOf(rs[i]), menuLower, normMenu, maxMenu)
            ELSE Returned(FALSE)]
    IN [records |-> Kept(rs, [i \in 1..Len(rs) |->
                        matchedName[i].matched \/ matchedMenu[i].matched]),
        panicked |-> \E i \in 1..Len(rs) :
                        matchedName[i].panicked \/ matchedMenu[i].panicked]

----------------------------------------------------------------------------
(* main: mergeOptions' query fields, then the per-area loop *)

None == "none"

\* no cache in use, and the interactive setup not running
\* no time: the zero time.Time, or the age of a file that does not exist
NoTime == -1

\* loadAreaReader has not been called
NoLoad == [Source |-> "none"]

CacheIdle == runOpts = None /\ files = <<>> /\ now = 0 /\ load = NoLoad

SetupIdle ==
    setupAreas = <<>> /\ setupCity = <<>> /\ entered = <<>> /\ reads = 0

\* what the --name, --menu and --search flags hold: nothing, a letter, a
\* digit, punctuation after a space
FlagValues == {<<>>, <<"a">>, <<"1">>, <<" ", "-">>}

\* the records a page holds: the extractor drops a block without a name and
\* drops empty menu lines
Names == {<<"A">>, <<"1">>}
Menus == {<<>>, <<<<"1">>, <<"A">>>>}
Restaurant ==
    [Name : Names, Price : {<<>>}, Address : {<<>>}, Phone : {<<>>},
     Link : {<<>>}, Menu : Menus]
Pages == SeqsUpTo(Restaurant, MaxRestaurants)

\* the normalized texts the matchers hand to the fuzzy library for a page
NormTexts(page) ==
    {normalizeToken(ToLower(page[i].Name)) : i \in 1..Len(page)}
    \cup {normalizeToken(menuTextOf(page[i])) : i \in 1..Len(page)}

Init ==
    /\ pc = "merge"
    /\ flagsName \in FlagValues
    /\ flagsMenu \in FlagValues
    /\ flagsSearch \in FlagValues
    /\ optsName = <<>> /\ optsMenu = <<>> /\ optsSearch = <<>>
    /\ nameQuery = <<>> /\ menuQuery = <<>> /\ combinedQuery = <<>>
    /\ areaIdx = 0
    /\ parsed = <<>> /\ restaurants = <<>>
    /\ calls = <<>>
    /\ panicOn = {}
    /\ argText = <<>> /\ argQuery = <<>> /\ argDist = 0
    /\ argLenA = 0 /\ argLenB = 0
    /\ result = None
    /\ CacheIdle /\ SetupIdle

\* mergeOptions, the three query fields
MergeOptions ==
    /\ pc = "merge"
    /\ optsName' = TrimSpace(flagsName)
    /\ optsSearch' = TrimSpace(flagsSearch)
    /\ optsMenu' = TrimSpace(flagsMenu)
    /\ pc' = "start"
    /\ UNCHANGED <<flagsName, flagsMenu, flagsSearch, nameQuery, menuQuery,
                   combinedQuery, areaIdx, parsed, restaurants, calls,
                   panicOn, argVars, result>>

\* main.go:156-161: the queries are read once, before the loop
Start ==
    /\ pc = "start"
    /\ nameQuery' = TrimSpace(optsName)
    /\ menuQuery' = TrimSpace(optsMenu)
    /\ combinedQuery' = TrimSpace(optsSearch)
    /\ areaIdx' = 1
    /\ pc' = "load"
    /\ UNCHANGED <<flagsName, flagsMenu, flagsSearch, optsName, optsMenu,
                   optsSearch, parsed, restaurants, calls, panicOn, argVars,
                   result>>

\* main.go:162: loadAreaReader returned a reader
LoadArea ==
    /\ pc = "load"
    /\ pc' = "parse"
    /\ UNCHANGED <<mainVars, panicOn, argVars, result>>

\* a failed load that is skipped: the loop goes on to the next area
LoadFailNextArea ==
    /\ pc = "load"
    /\ areaIdx < NumAreas
    /\ areaIdx' = areaIdx + 1
    /\ pc' = "load"
    /\ UNCHANGED <<flagsName, flagsMenu, flagsSearch, optsName, optsMenu,
                   optsSearch, nameQuery, menuQuery, combinedQuery, parsed,
                   restaurants, calls, panicOn, argVars, result>>

\* main.go:163-165: loadAreaReader failed, log.Fatalf ends the run
LoadFail ==
    /\ pc = "load"
    /\ pc' = "fatal"
    /\ UNCHANGED <<mainVars, panicOn, argVars, result>>

\* main.go:167-168: parseRestaurants returned the records of the page.  What
\* the fuzzy library will panic on is fixed here, with the texts it will be
\* given: at most one of them.
Parse ==
    /\ pc = "parse"
    /\ \E page \in Pages :
           /\ parsed' = page
           /\ restaurants' = page
           /\ panicOn' \in {{}} \cup {{t} : t \in NormTexts(page)}
    /\ pc' = "filter"
    /\ UNCHANGED <<flagsName, flagsMenu, flagsSearch, optsName, optsMenu,
                   optsSearch, nameQuery, menuQuery, combinedQuery, areaIdx,
                   calls, argVars, result>>

\* main.go:169-171: parseRestaurants failed, log.Fatalf ends the run
ParseFail ==
    /\ pc = "parse"
    /\ pc' = "fatal"
    /\ UNCHANGED <<mainVars, panicOn, argVars, result>>

\* a defaulting that lets the combined query replace an explicit one
effectiveQueryOverride(explicit, combined) == combined

\* main.go:174-179: the combined query fills in a query that is empty
effectiveQuery(explicit, combined) ==
    IF explicit = <<>> THEN combined ELSE explicit

\* a separate filtering that keeps nothing when no query is set
filterSeparateNoQueryKeepsNothing(rs, nameQ, menuQ) ==
    LET afterName ==
            IF nameQ # <<>> THEN filterRestaurants(rs, nameQ)
            ELSE [records |-> rs, panicked |-> FALSE]
        afterMenu ==
            IF menuQ # <<>> THEN filterByMenu(afterName.records, menuQ)
            ELSE afterName
    IN IF nameQ = <<>> /\ menuQ = <<>>
       THEN [records |-> <<>>, panicked |-> FALSE]
       ELSE IF afterName.panicked THEN afterName ELSE afterMenu

\* a separate filtering that lets the name filter decide alone when both
\* queries are set
filterSeparateNameFirst(rs, nameQ, menuQ) ==
    IF nameQ # <<>> THEN filterRestaurants(rs, nameQ)
    ELSE IF menuQ # <<>> THEN filterByMenu(rs, menuQ)
    ELSE [records |-> rs, panicked |-> FALSE]

\* main.go:182-187: the name filter, then the menu filter on what is left
filterSeparate(rs, nameQ, menuQ) ==
    LET afterName ==
            IF nameQ # <<>> THEN filterRestaurants(rs, nameQ)
            ELSE [records |-> rs, panicked |-> FALSE]
        afterMenu ==
            IF menuQ # <<>> THEN filterByMenu(afterName.records, menuQ)
            ELSE afterName
    IN IF afterName.panicked THEN afterName ELSE afterMenu

\* main.go:173-188.  Nothing between a matcher and main recovers: a panic
\* that leaves a filter ends the process.
Filter ==
    /\ pc = "filter"
    /\ LET combined == combinedQuery # <<>>
           n == IF combined THEN effectiveQuery(nameQuery, combinedQuery)
                ELSE nameQuery
           m == IF combined THEN effectiveQuery(menuQuery, combinedQuery)
                ELSE menuQuery
           out == IF combined THEN filterCombined(restaurants, n, m)
                  ELSE filterSeparate(restaurants, n, m)
       IN /\ nameQuery' = n
          /\ menuQuery' = m
          /\ calls' = Append(calls,
                 [fn |-> IF combined THEN "filterCombined" ELSE "separate",
                  name |-> n, menu |-> m])
          /\ IF out.panicked
             THEN pc' = "panic" /\ UNCHANGED restaurants
             ELSE pc' = "print" /\ restaurants' = out.records
    /\ UNCHANGED <<flagsName, flagsMenu, flagsSearch, optsName, optsMenu,
                   optsSearch, combinedQuery, areaIdx, parsed, panicOn,
                   argVars, result>>

\* main.go:190-216: the header and the records that are left are written
\* out, and the loop goes on to the next area or ends; restaurants is a
\* variable of the loop body
Output ==
    /\ pc = "print"
    /\ parsed' = <<>> /\ restaurants' = <<>>
    /\ panicOn' = {}
    /\ IF areaIdx < NumAreas
       THEN areaIdx' = areaIdx + 1 /\ pc' = "load"
       ELSE UNCHANGED areaIdx /\ pc' = "done"
    /\ UNCHANGED <<flagsName, flagsMenu, flagsSearch, optsName, optsMenu,
                   optsSearch, nameQuery, menuQuery, combinedQuery, calls,
                   argVars, result>>

Next ==
    \/ MergeOptions
    \/ Start
    \/ LoadArea
    \/ LoadFail
    \/ Parse
    \/ ParseFail
    \/ Filter
    \/ Output

Spec == Init /\ [][Next]_vars

----------------------------------------------------------------------------
(* The extractor: parseRestaurants and what it calls.  A call either       *)
(* returns or panics; panicked says that a panic left it.                   *)

\* normalizeSpaces
normalizeSpaces(s) == Join(FieldsOf(ReplaceNBSP(s)))

\* the string literals of splitAddressAndPhone
ADRESS == <<"A", "D", "R", "E", "S", "S", ":">>
TEL == <<"T", "E", "L", ":">>

\* a splitAddressAndPhone that leaves the label where it is
splitAddressAndPhoneKeepsLabel(line) ==
    LET trimmed == TrimSpace(line)
        upper == Bytes(ToUpper(trimmed))
        bytes == Bytes(trimmed)
        idx == Index(upper, Bytes(TEL))
    IN IF idx < 0
       THEN [address |-> trimmed, phone |-> <<>>, panicked |-> FALSE]
       ELSE IF idx + Len(TEL) > Len(bytes)
       THEN [address |-> <<>>, phone |-> <<>>, panicked |-> TRUE]
       ELSE [address |-> TrimSpace(Runes(SubSeq(bytes, 1, idx))),
             phone |-> normalizeSpaces(
                           Runes(SubSeq(bytes, idx + Len(TEL) + 1,
                                        Len(bytes)))),
             panicked |-> FALSE]

\* splitAddressAndPhone.  idx is an offset into the upper-cased line and is
\* used as an offset into the line itself; line[idx+len("TEL:"):] panics
\* when the offset is beyond the end of the line.
splitAddressAndPhone(line) ==
    LET trimmed == TrimSpace(TrimPrefix(line, ADRESS))
        upper == Bytes(ToUpper(trimmed))
        bytes == Bytes(trimmed)
        idx == Index(upper, Bytes(TEL))
    IN IF idx < 0
       THEN [address |-> trimmed, phone |-> <<>>, panicked |-> FALSE]
       ELSE IF idx + Len(TEL) > Len(bytes)
       THEN [address |-> <<>>, phone |-> <<>>, panicked |-> TRUE]
       ELSE [address |-> TrimSpace(Runes(SubSeq(bytes, 1, idx))),
             phone |-> normalizeSpaces(
                           Runes(SubSeq(bytes, idx + Len(TEL) + 1,
                                        Len(bytes)))),
             panicked |-> FALSE]

\* A node of the parse tree: a text node with its data, a br element, or
\* another element with its children.
TextNode(data) == [type |-> "text", data |-> data, children |-> <<>>]
BrNode == [type |-> "br", data |-> <<>>, children |-> <<>>]
ElementNode(children) ==
    [type |-> "element", data |-> <<>>, children |-> children]

\* writeNode, and its loop over the children of the node
RECURSIVE writeNode(_)
RECURSIVE writeChildren(_)
writeChildren(children) ==
    IF children = <<>> THEN <<>>
    ELSE (IF Head(children).type = "br" THEN <<"LF">>
          ELSE writeNode(Head(children)))
         \o writeChildren(Tail(children))

writeNode(node) ==
    (IF node.type = "text" THEN node.data ELSE <<>>)
    \o writeChildren(node.children)

\* textWithBreaks: the nodes of the selection, written one after another
RECURSIVE writeNodes(_)
writeNodes(nodes) ==
    IF nodes = <<>> THEN <<>>
    ELSE writeNode(Head(nodes)) \o writeNodes(Tail(nodes))

textWithBreaks(sel) == TrimSpace(writeNodes(sel))

\* strings.Split(text, "\n")
RECURSIVE SplitFrom(_, _, _)
SplitFrom(s, line, lines) ==
    IF s = <<>> THEN Append(lines, line)
    ELSE IF Head(s) = "LF" THEN SplitFrom(Tail(s), <<>>, Append(lines, line))
    ELSE SplitFrom(Tail(s), Append(line, Head(s)), lines)

Split(text) == SplitFrom(text, <<>>, <<>>)

IsNotEmpty(line) == line # <<>>

\* extractMenuLines; sel is a selection of no node or of one
extractMenuLines(sel) ==
    IF Len(sel) = 0 THEN <<>>
    ELSE LET text == textWithBreaks(sel)
             lines == Split(text)
         IN IF text = <<>> THEN <<>>
            ELSE SelectSeq([i \in 1..Len(lines) |-> normalizeSpaces(lines[i])],
                           IsNotEmpty)

\* A restaurant block, a div.row.t_lunch of the document, is given by what
\* the selectors of parseRestaurants find in it:
\*   name   the text of the first div.name h5.t_lunch a, empty when none
\*   price  the text of the first .price-rl .price, empty when none
\*   menu   the first div.rest-menu p.t_lunch: no node or one
\*   addr   the text of the first .divider p, empty when none
\*   link   the href of the element of the name, empty when none
\* go.mod:51-64: the record of a block that has a name
blockRecord(s) ==
    LET split == splitAddressAndPhone(normalizeSpaces(s.addr))
    IN [record |-> [Name |-> TrimSpace(s.name),
                    Price |-> normalizeSpaces(s.price),
                    Address |-> split.address,
                    Phone |-> split.phone,
                    Link |-> s.link,
                    Menu |-> extractMenuLines(s.menu)],
        panicked |-> split.panicked]

\* a callback that appends a record for a block without a name too
RECURSIVE eachBlockKeepsNameless(_, _)
eachBlockKeepsNameless(blocks, acc) ==
    IF blocks = <<>> \/ acc.panicked THEN acc
    ELSE LET made == blockRecord(Head(blocks))
         IN eachBlockKeepsNameless(Tail(blocks),
                [restaurants |-> Append(acc.restaurants, made.record),
                 panicked |-> made.panicked])

\* a callback that puts the record of a block before those of the blocks
\* before it
RECURSIVE eachBlockNewestFirst(_, _)
eachBlockNewestFirst(blocks, acc) ==
    IF blocks = <<>> \/ acc.panicked THEN acc
    ELSE IF TrimSpace(Head(blocks).name) = <<>>
    THEN eachBlockNewestFirst(Tail(blocks), acc)
    ELSE LET made == blockRecord(Head(blocks))
         IN eachBlockNewestFirst(Tail(blocks),
                [restaurants |-> <<made.record>> \o acc.restaurants,
                 panicked |-> made.panicked])

\* go.mod:45-65: Each calls the function on the blocks in document order; a
\* panic in the function ends the loop and leaves parseRestaurants
RECURSIVE eachBlock(_, _)
eachBlock(blocks, acc) ==
    IF blocks = <<>> \/ acc.panicked THEN acc
    ELSE IF TrimSpace(Head(blocks).name) = <<>>
    THEN eachBlock(Tail(blocks), acc)
    ELSE LET made == blockRecord(Head(blocks))
         IN eachBlock(Tail(blocks),
                [restaurants |-> Append(acc.restaurants, made.record),
                 panicked |-> made.panicked])

\* parseRestaurants.  goquery.NewDocumentFromReader fails only when reading
\* fails: html.Parse builds a tree from any bytes it can read.  A document
\* is
\*   read    "ok" or "error": whether the reader can be read to its end
\*   markup  whether the bytes are markup at all
\*   blocks  the restaurant blocks of the tree, in document order
parseRestaurants(doc) ==
    IF doc.read = "error"
    THEN [restaurants |-> <<>>, err |-> TRUE, panicked |-> FALSE]
    ELSE LET out == eachBlock(doc.blocks,
                              [restaurants |-> <<>>, panicked |-> FALSE])
         IN [restaurants |-> out.restaurants, err |-> FALSE,
             panicked |-> out.panicked]

----------------------------------------------------------------------------
(* normalizeToken and the thresholds of the three filters, applied to one  *)
(* text                                                                     *)

Texts == SeqsUpTo(Chars, MaxTextLen)

InitText ==
    /\ pc = "call"
    /\ argText \in Texts
    /\ result = <<>>
    /\ flagsName = <<>> /\ flagsMenu = <<>> /\ flagsSearch = <<>>
    /\ optsName = <<>> /\ optsMenu = <<>> /\ optsSearch = <<>>
    /\ nameQuery = <<>> /\ menuQuery = <<>> /\ combinedQuery = <<>>
    /\ areaIdx = 0
    /\ parsed = <<>> /\ restaurants = <<>>
    /\ calls = <<>>
    /\ panicOn = {}
    /\ argQuery = <<>> /\ argDist = 0 /\ argLenA = 0 /\ argLenB = 0
    /\ CacheIdle /\ SetupIdle

\* normalizeToken(argText)
Normalize ==
    /\ pc = "call"
    /\ result' = <<normalizeToken(argText)>>
    /\ pc' = "normalized"
    /\ UNCHANGED <<mainVars, panicOn, argVars>>

\* normalizeToken of what normalizeToken returned
NormalizeAgain ==
    /\ pc = "normalized"
    /\ result' = Append(result, normalizeToken(result[1]))
    /\ pc' = "renormalized"
    /\ UNCHANGED <<mainVars, panicOn, argVars>>

\* The text as a query: main hands the filters a query that is trimmed and
\* not empty.  The maxDistance each filter computes for it.
Thresholds ==
    /\ pc = "call"
    /\ argText # <<>>
    /\ TrimSpace(argText) = argText
    /\ result' = [nameOnly |-> filterRestaurantsMaxDistance(argText),
                  menu |-> filterByMenuMaxDistance(argText),
                  combined |-> filterCombinedMaxDistance(argText)]
    /\ pc' = "thresholds"
    /\ UNCHANGED <<mainVars, panicOn, argVars>>

NextText == Normalize \/ NormalizeAgain \/ Thresholds

SpecText == InitText /\ [][NextText]_vars

----------------------------------------------------------------------------
(* fuzzThreshold applied to two lengths *)

InitLen ==
    /\ pc = "call"
    /\ argLenA \in 0..MaxLength
    /\ argLenB \in 0..MaxLength
    /\ result = None
    /\ flagsName = <<>> /\ flagsMenu = <<>> /\ flagsSearch = <<>>
    /\ optsName = <<>> /\ optsMenu = <<>> /\ optsSearch = <<>>
    /\ nameQuery = <<>> /\ menuQuery = <<>> /\ combinedQuery = <<>>
    /\ areaIdx = 0
    /\ parsed = <<>> /\ restaurants = <<>>
    /\ calls = <<>>
    /\ panicOn = {}
    /\ argText = <<>> /\ argQuery = <<>> /\ argDist = 0
    /\ CacheIdle /\ SetupIdle

CallFuzzThreshold ==
    /\ pc = "call"
    /\ result' = [a |-> fuzzThreshold(argLenA), b |-> fuzzThreshold(argLenB)]
    /\ pc' = "returned"
    /\ UNCHANGED <<mainVars, panicOn, argVars>>

NextLen == CallFuzzThreshold

SpecLen == InitLen /\ [][NextLen]_vars

----------------------------------------------------------------------------
(* The two matchers applied to one field, one query and one maxDistance    *)

MatchChars == {"a", "A", "1", "-"}
Fields == SeqsUpTo(MatchChars, MaxFieldLen)
Queries == SeqsUpTo(MatchChars, MaxQueryLen)

\* maxDistance is a value of fuzzThreshold
Distances == {fuzzThreshold(n) : n \in 0..MaxLength}

InitMatch ==
    /\ pc = "call"
    /\ argText \in Fields
    /\ argQuery \in Queries
    /\ argDist \in Distances
    /\ panicOn \in {{}, {normalizeToken(ToLower(argText))}}
    /\ result = None
    /\ flagsName = <<>> /\ flagsMenu = <<>> /\ flagsSearch = <<>>
    /\ optsName = <<>> /\ optsMenu = <<>> /\ optsSearch = <<>>
    /\ nameQuery = <<>> /\ menuQuery = <<>> /\ combinedQuery = <<>>
    /\ areaIdx = 0
    /\ parsed = <<>> /\ restaurants = <<>>
    /\ calls = <<>>
    /\ argLenA = 0 /\ argLenB = 0
    /\ CacheIdle /\ SetupIdle

\* matchesName as filterRestaurants and filterCombined call it, the query
\* lower-cased, and matchesText as filterByMenu and filterCombined call it,
\* the text and the query lower-cased and the normalized query alongside
CallMatchers ==
    /\ pc = "call"
    /\ result' = [name |-> matchesName(argText, ToLower(argQuery), argDist),
                  text |-> matchesText(ToLower(argText), ToLower(argQuery),
                                       normalizeToken(ToLower(argQuery)),
                                       argDist)]
    /\ pc' = "returned"
    /\ UNCHANGED <<mainVars, panicOn, argVars>>

NextMatch == CallMatchers

SpecMatch == InitMatch /\ [][NextMatch]_vars

----------------------------------------------------------------------------
(* splitAddressAndPhone applied to the text of one address paragraph *)

\* An address text is put together from labels in several spellings, a
\* space, a digit and two letters whose upper case has another length.
AddrPieces ==
    {ADRESS,
     <<"A", "D", "D", "R", "E", "S", "S", ":">>,
     <<"a", "d", "r", "e", "s", "s", ":">>,
     TEL,
     <<"t", "e", "l", ":">>,
     <<" ">>, <<"1">>, <<"dotless_i">>, <<"turned_a">>}

RECURSIVE Concat(_)
Concat(pieces) ==
    IF pieces = <<>> THEN <<>> ELSE Head(pieces) \o Concat(Tail(pieces))

\* the texts of up to n pieces
AddrTexts(n) == {Concat(pieces) : pieces \in SeqsUpTo(AddrPieces, n)}

InitAddr ==
    /\ pc = "call"
    /\ argText \in AddrTexts(MaxPieces)
    /\ result = None
    /\ flagsName = <<>> /\ flagsMenu = <<>> /\ flagsSearch = <<>>
    /\ optsName = <<>> /\ optsMenu = <<>> /\ optsSearch = <<>>
    /\ nameQuery = <<>> /\ menuQuery = <<>> /\ combinedQuery = <<>>
    /\ areaIdx = 0
    /\ parsed = <<>> /\ restaurants = <<>>
    /\ calls = <<>>
    /\ panicOn = {}
    /\ argQuery = <<>> /\ argDist = 0 /\ argLenA = 0 /\ argLenB = 0
    /\ CacheIdle /\ SetupIdle

\* go.mod:53-54: the text is normalized and then split
CallSplitAddressAndPhone ==
    /\ pc = "call"
    /\ LET split == splitAddressAndPhone(normalizeSpaces(argText))
       IN /\ result' = split
          /\ pc' = IF split.panicked THEN "panic" ELSE "returned"
    /\ UNCHANGED <<mainVars, panicOn, argVars>>

NextAddr == CallSplitAddressAndPhone

SpecAddr == InitAddr /\ [][NextAddr]_vars

----------------------------------------------------------------------------
(* extractMenuLines applied to one menu paragraph *)

MenuTextData ==
    {<<"a">>, <<" ">>, <<"1", "LF", "a">>, <<"NBSP", "a", " ", " ", "1">>}

Leaves == {TextNode(data) : data \in MenuTextData} \cup {BrNode}

MenuNodes ==
    Leaves \cup {ElementNode(<<leaf>>) : leaf \in Leaves}
           \cup {ElementNode(<<>>)}

\* the selection: no paragraph, or one with up to n children
MenuSelections(n) ==
    {<<>>} \cup {<<ElementNode(children)>> :
                    children \in SeqsUpTo(MenuNodes, n)}

InitMenu ==
    /\ pc = "call"
    /\ argText \in MenuSelections(MaxMenuNodes)
    /\ result = None
    /\ flagsName = <<>> /\ flagsMenu = <<>> /\ flagsSearch = <<>>
    /\ optsName = <<>> /\ optsMenu = <<>> /\ optsSearch = <<>>
    /\ nameQuery = <<>> /\ menuQuery = <<>> /\ combinedQuery = <<>>
    /\ areaIdx = 0
    /\ parsed = <<>> /\ restaurants = <<>>
    /\ calls = <<>>
    /\ panicOn = {}
    /\ argQuery = <<>> /\ argDist = 0 /\ argLenA = 0 /\ argLenB = 0
    /\ CacheIdle /\ SetupIdle

CallExtractMenuLines ==
    /\ pc = "call"
    /\ result' = extractMenuLines(argText)
    /\ pc' = "returned"
    /\ UNCHANGED <<mainVars, panicOn, argVars>>

NextMenu == CallExtractMenuLines

SpecMenu == InitMenu /\ [][NextMenu]_vars

----------------------------------------------------------------------------
(* parseRestaurants applied to one document *)

BlockNames == {<<>>, <<" ">>, <<"NBSP", "A", " ">>, <<"1">>}

\* what a block has besides its name: nothing; everything; an address on
\* which splitAddressAndPhone panics
BlockDetails ==
    {[price |-> <<>>, menu |-> <<>>, addr |-> <<>>, link |-> <<>>],
     [price |-> <<"1", "NBSP", " ", "1">>,
      menu |-> <<ElementNode(<<TextNode(<<"a">>), BrNode,
                               TextNode(<<"1">>)>>)>>,
      addr |-> ADRESS \o <<" ", "a", " ">> \o TEL \o <<" ", "1">>,
      link |-> <<"a">>],
     [price |-> <<>>, menu |-> <<>>,
      addr |-> <<"turned_a", "turned_a", " ">> \o TEL,
      link |-> <<>>]}

Blocks ==
    {[name |-> n, price |-> d.price, menu |-> d.menu, addr |-> d.addr,
      link |-> d.link] : n \in BlockNames, d \in BlockDetails}

\* a reader that fails, bytes that are no markup, and documents of up to n
\* blocks
Docs(n) ==
    {[read |-> "error", markup |-> TRUE, blocks |-> <<>>],
     [read |-> "ok", markup |-> FALSE, blocks |-> <<>>]}
    \cup {[read |-> "ok", markup |-> TRUE, blocks |-> blocks] :
             blocks \in SeqsUpTo(Blocks, n)}

InitParse ==
    /\ pc = "call"
    /\ argText \in Docs(MaxBlocks)
    /\ result = None
    /\ flagsName = <<>> /\ flagsMenu = <<>> /\ flagsSearch = <<>>
    /\ optsName = <<>> /\ optsMenu = <<>> /\ optsSearch = <<>>
    /\ nameQuery = <<>> /\ menuQuery = <<>> /\ combinedQuery = <<>>
    /\ areaIdx = 0
    /\ parsed = <<>> /\ restaurants = <<>>
    /\ calls = <<>>
    /\ panicOn = {}
    /\ argQuery = <<>> /\ argDist = 0 /\ argLenA = 0 /\ argLenB = 0
    /\ CacheIdle /\ SetupIdle

CallParseRestaurants ==
    /\ pc = "call"
    /\ LET out == parseRestaurants(argText)
       IN /\ result' = out
          /\ pc' = IF out.panicked THEN "panic" ELSE "returned"
    /\ UNCHANGED <<mainVars, panicOn, argVars>>

NextParse == CallParseRestaurants

SpecParse == InitParse /\ [][NextParse]_vars

----------------------------------------------------------------------------
(* mergeOptions applied to one configuration and one set of flags.  A      *)
(* cache TTL is a text of the digits "0", "1", "6", the unit "h", the letter *)
(* "a" and spaces; a duration is a number of hours.                         *)

\* a firstNonEmpty that looks at the configuration before the flag
firstNonEmptyConfigFirst(flagValue, cfgValue, default) ==
    IF TrimSpace(cfgValue) # <<>> THEN cfgValue
    ELSE IF TrimSpace(flagValue) # <<>> THEN flagValue
    ELSE IF TrimSpace(default) # <<>> THEN default
    ELSE <<>>

\* firstNonEmpty, as mergeOptions calls it: with three values
firstNonEmpty(flagValue, cfgValue, default) ==
    IF TrimSpace(flagValue) # <<>> THEN flagValue
    ELSE IF TrimSpace(cfgValue) # <<>> THEN cfgValue
    ELSE IF TrimSpace(default) # <<>> THEN default
    ELSE <<>>

\* allDigits
allDigits(input) ==
    input # <<>> /\ \A i \in 1..Len(input) : input[i] \in {"0", "1", "6"}

\* the number a text of digits stands for
RECURSIVE Decimal(_)
Decimal(digits) ==
    IF digits = <<>> THEN 0
    ELSE 10 * Decimal(SubSeq(digits, 1, Len(digits) - 1))
         + (CASE digits[Len(digits)] = "6" -> 6
              [] digits[Len(digits)] = "0" -> 0
              [] OTHER -> 1)

\* time.ParseDuration on these texts: digits and the unit
ParseDuration(input) ==
    LET digits == SubSeq(input, 1, Len(input) - 1)
    IN IF Len(input) >= 2 /\ input[Len(input)] = "h" /\ allDigits(digits)
       THEN [dur |-> Decimal(digits), ok |-> TRUE]
       ELSE [dur |-> 0, ok |-> FALSE]

\* parseCacheTTL
parseCacheTTL(input) ==
    LET trimmed == TrimSpace(input)
    IN IF trimmed = <<>> THEN [dur |-> 0, ok |-> FALSE]
       ELSE IF ParseDuration(trimmed).ok THEN ParseDuration(trimmed)
       ELSE IF allDigits(trimmed)
       THEN ParseDuration(trimmed \o <<"h">>)
       ELSE [dur |-> 0, ok |-> FALSE]

\* configAreas, for a configuration that is not nil
RECURSIVE configAreasFrom(_, _, _)
configAreasFrom(list, defaultCity, areas) ==
    IF list = <<>> THEN areas
    ELSE LET own == TrimSpace(Head(list).City)
             city == IF own = <<>> THEN defaultCity ELSE own
             areaSlug == TrimSpace(Head(list).Area)
         IN configAreasFrom(Tail(list), defaultCity,
                IF city = <<>> THEN areas
                ELSE Append(areas, [City |-> city, Area |-> areaSlug]))

\* a configAreas that gives every entry the top-level city
configAreasTopLevelCityOnly(cfg) ==
    LET defaultCity == TrimSpace(cfg.City)
    IN IF defaultCity = <<>> THEN <<>>
       ELSE IF cfg.Areas = <<>>
       THEN <<[City |-> defaultCity, Area |-> TrimSpace(cfg.Area)]>>
       ELSE [i \in 1..Len(cfg.Areas) |->
                [City |-> defaultCity, Area |-> TrimSpace(cfg.Areas[i].Area)]]

configAreas(cfg) ==
    LET defaultCity == TrimSpace(cfg.City)
        areas == configAreasFrom(cfg.Areas, defaultCity, <<>>)
    IN IF Len(areas) = 0 /\ defaultCity # <<>>
       THEN <<[City |-> defaultCity, Area |-> TrimSpace(cfg.Area)]>>
       ELSE areas

\* makeAreas
RECURSIVE makeAreas(_, _)
makeAreas(city, areas) ==
    IF areas = <<>> THEN <<>>
    ELSE LET area == TrimSpace(Head(areas))
         IN (IF area = <<>> THEN <<>>
             ELSE <<[City |-> TrimSpace(city), Area |-> area]>>)
            \o makeAreas(city, Tail(areas))

\* the literal "6h" and 6 * time.Hour
DefaultTTL == <<"6", "h">>
DefaultTTLHours == 6

\* mergeOptions; defaultDir is what defaultCacheDir() returns
mergeOptions(cfg, flags, defaultDir) ==
    LET opts == [CacheDir |-> firstNonEmpty(flags.CacheDir, cfg.CacheDir,
                                            defaultDir),
                 Name |-> TrimSpace(flags.Name),
                 Search |-> TrimSpace(flags.Search),
                 Menu |-> TrimSpace(flags.Menu),
                 Areas |-> <<>>,
                 CacheTTL |-> 0]
        areas == IF Len(flags.Areas) > 0
                 THEN makeAreas(flags.City, flags.Areas)
                 ELSE IF TrimSpace(flags.City) # <<>>
                 THEN <<[City |-> TrimSpace(flags.City), Area |-> <<>>]>>
                 ELSE configAreas(cfg)
        withAreas == [opts EXCEPT !.Areas = areas]
        ttlStr == firstNonEmpty(flags.CacheTTL, cfg.CacheTTL, DefaultTTL)
        parsedTTL == parseCacheTTL(ttlStr)
    IN IF Len(flags.Areas) > 0 /\ TrimSpace(flags.City) = <<>>
       THEN [opts |-> opts, err |-> TRUE]
       ELSE IF Len(areas) = 0 THEN [opts |-> withAreas, err |-> TRUE]
       ELSE IF ttlStr = <<>> THEN [opts |-> withAreas, err |-> FALSE]
       ELSE IF parsedTTL.ok
       THEN [opts |-> [withAreas EXCEPT !.CacheTTL = parsedTTL.dur],
             err |-> FALSE]
       ELSE IF flags.CacheTTL # <<>> THEN [opts |-> withAreas, err |-> TRUE]
       ELSE [opts |-> [withAreas EXCEPT !.CacheTTL = DefaultTTLHours],
             err |-> FALSE]

\* the flags: every --area value is trimmed and not empty (areaList.Set)
FlagSets ==
    [City : {<<>>, <<" ">>, <<"a">>},
     Areas : {<<>>, <<<<"1">>>>, <<<<"1">>, <<"a">>>>},
     Name : {<<" ", "a">>}, Search : {<<>>}, Menu : {<<>>},
     CacheDir : {<<>>, <<" ">>, <<"a">>},
     CacheTTL : {<<>>, <<" ">>, <<"1", "h">>, <<"a">>}]

\* the configuration; a configuration that could not be loaded is the empty
\* one (main.go:136-137)
Configs ==
    [City : {<<>>, <<"A">>},
     Area : {<<>>, <<"1">>},
     Areas : {<<>>,
              <<[City |-> <<>>, Area |-> <<"1">>]>>,
              <<[City |-> <<"a", " ">>, Area |-> <<>>],
                [City |-> <<>>, Area |-> <<"a">>]>>},
     CacheDir : {<<>>, <<" ">>, <<"1">>},
     CacheTTL : {<<>>, <<"1", "1">>, <<"a">>, <<" ", "1", "6", "h">>}]

\* what defaultCacheDir() returns: nothing or a directory
DefaultDirs == {<<>>, <<"-">>}

InitMerge ==
    /\ pc = "config"
    /\ argText \in [flags : FlagSets, cfg : Configs, defaultDir : DefaultDirs]
    /\ result = None
    /\ flagsName = <<>> /\ flagsMenu = <<>> /\ flagsSearch = <<>>
    /\ optsName = <<>> /\ optsMenu = <<>> /\ optsSearch = <<>>
    /\ nameQuery = <<>> /\ menuQuery = <<>> /\ combinedQuery = <<>>
    /\ areaIdx = 0
    /\ parsed = <<>> /\ restaurants = <<>>
    /\ calls = <<>>
    /\ panicOn = {}
    /\ argQuery = <<>> /\ argDist = 0 /\ argLenA = 0 /\ argLenB = 0
    /\ CacheIdle /\ SetupIdle

\* main.go:130-135: without areas in the configuration and without --area
\* main asks for a configuration and returns
PromptForConfig ==
    /\ pc = "config"
    /\ Len(configAreas(argText.cfg)) = 0
    /\ Len(argText.flags.Areas) = 0
    /\ pc' = "prompted"
    /\ UNCHANGED <<mainVars, panicOn, argVars, result>>

\* main.go:141-144: mergeOptions is called; log.Fatal on an error
CallMergeOptions ==
    /\ pc = "config"
    /\ Len(configAreas(argText.cfg)) # 0 \/ Len(argText.flags.Areas) # 0
    /\ LET merged == mergeOptions(argText.cfg, argText.flags,
                                  argText.defaultDir)
       IN /\ result' = merged
          /\ pc' = IF merged.err THEN "fatal" ELSE "merged"
    /\ UNCHANGED <<mainVars, panicOn, argVars>>

NextMerge == PromptForConfig \/ CallMergeOptions

SpecMerge == InitMerge /\ [][NextMerge]_vars

----------------------------------------------------------------------------
(* loadAreaReader and the cache directory, over the runs that share one     *)
(* configuration and one set of cache flags.  The clock and a TTL count     *)
(* hours.  A page, fetched or cached, is known by the target and the day it *)
(* was fetched for.  City and area slugs and file names are texts of        *)
(* letters, digits, "_", "." and "/".                                       *)

\* the targets of the runs: a whole city, and an area of it whose slug is
\* "all"
Targets ==
    {[City |-> <<"a">>, Area |-> <<>>],
     [City |-> <<"a">>, Area |-> <<"a", "l", "l">>]}

\* opts.Day
Days == {1, 2}

\* fmt's %d of a day
DayDigits(day) ==
    <<CASE day = 1 -> "1" [] day = 2 -> "2" [] day = 3 -> "3" [] day = 4 -> "4"
        [] day = 5 -> "5" [] day = 6 -> "6" [] OTHER -> "7">>

\* main.go:250-254
cacheKeyOf(area, day) ==
    (IF area.Area = <<>> THEN <<"a", "l", "l">> ELSE area.Area)
    \o <<"_", "d", "a", "y">> \o DayDigits(day)

\* main.go:304 and 330: filepath.Join(dir, fmt.Sprintf("%s_%s.html", ...))
cachePathOf(dir, city, area) ==
    dir \o <<"/">> \o city \o <<"_">> \o area \o <<".", "h", "t", "m", "l">>

\* the page the site returns for a target and a day
PageOf(area, day) == [area |-> area, day |-> day]

\* a tryCache that never looks at the age of the file
tryCacheNoExpiry(dir, city, area, ttl) ==
    LET cachePath == cachePathOf(dir, city, area)
    IN IF dir = <<>> \/ ttl <= 0 \/ cachePath \notin DOMAIN files
       THEN [ok |-> FALSE, file |-> None, modTime |-> NoTime]
       ELSE [ok |-> TRUE, file |-> files[cachePath].page,
             modTime |-> files[cachePath].modTime]

\* tryCache: os.Stat fails when there is no such file
tryCache(dir, city, area, ttl) ==
    LET cachePath == cachePathOf(dir, city, area)
    IN IF dir = <<>> \/ ttl <= 0 \/ cachePath \notin DOMAIN files
       THEN [ok |-> FALSE, file |-> None, modTime |-> NoTime]
       ELSE IF now - files[cachePath].modTime > ttl
       THEN [ok |-> FALSE, file |-> None, modTime |-> NoTime]
       ELSE [ok |-> TRUE, file |-> files[cachePath].page,
             modTime |-> files[cachePath].modTime]

\* cacheAndWrap; written is whether os.MkdirAll and os.WriteFile succeeded
cacheAndWrap(body, dir, city, area, written) ==
    IF dir # <<>> /\ written
    THEN [files |-> (cachePathOf(dir, city, area)
                        :> [modTime |-> now, page |-> body]) @@ files,
          cacheUpdated |-> now]
    ELSE [files |-> files, cacheUpdated |-> NoTime]

\* the cache flags of the runs, with a configuration that has a city
CacheFlagSets ==
    [City : {<<>>}, Areas : {<<>>},
     Name : {<<>>}, Search : {<<>>}, Menu : {<<>>},
     CacheDir : {<<>>, <<"d">>},
     CacheTTL : {<<"0", "h">>, <<"1", "h">>}]

CacheConfigs ==
    [City : {<<"a">>}, Area : {<<>>}, Areas : {<<>>},
     CacheDir : {<<>>, <<"c">>},
     CacheTTL : {<<>>}]

InitCache ==
    /\ pc = "config"
    /\ argText \in [flags : CacheFlagSets, cfg : CacheConfigs,
                     defaultDir : DefaultDirs]
    /\ result = None
    /\ flagsName = <<>> /\ flagsMenu = <<>> /\ flagsSearch = <<>>
    /\ optsName = <<>> /\ optsMenu = <<>> /\ optsSearch = <<>>
    /\ nameQuery = <<>> /\ menuQuery = <<>> /\ combinedQuery = <<>>
    /\ areaIdx = 0
    /\ parsed = <<>> /\ restaurants = <<>>
    /\ calls = <<>>
    /\ panicOn = {}
    /\ argQuery = <<>> /\ argDist = 0 /\ argLenA = 0 /\ argLenB = 0
    /\ CacheIdle /\ SetupIdle

\* main.go:141-144: the cache directory and the TTL of the runs
MergeCacheOptions ==
    /\ pc = "config"
    /\ LET merged == mergeOptions(argText.cfg, argText.flags,
                                  argText.defaultDir)
       IN /\ runOpts' = merged.opts
          /\ pc' = IF merged.err THEN "fatal" ELSE "ready"
    /\ UNCHANGED <<mainVars, panicOn, argText, argQuery, argDist, argLenA,
                   argLenB, result, files, now, load, setupVars>>

\* loadAreaReader for one target and day (main.go:162, 248-271).  The
\* fetch succeeds or fails; load records what the call did: the source and
\* content of the reader it returned, whether it fetched, and the age the
\* cache file had when the call started.
LoadAreaReader ==
    /\ pc = "ready"
    /\ \E area \in Targets, day \in Days, fetchOk \in BOOLEAN,
          written \in BOOLEAN :
           LET dir == runOpts.CacheDir
               cacheKey == cacheKeyOf(area, day)
               cachePath == cachePathOf(dir, area.City, cacheKey)
               cache == tryCache(dir, area.City, cacheKey, runOpts.CacheTTL)
               body == PageOf(area, day)
               wrapped == cacheAndWrap(body, dir, area.City, cacheKey,
                                       written)
               call == [area |-> area, day |-> day, at |-> now,
                        age |-> IF cachePath \in DOMAIN files
                                THEN now - files[cachePath].modTime
                                ELSE NoTime]
           IN IF cache.ok
              THEN /\ load' = [call |-> call, Source |-> "cache",
                               reader |-> cache.file, fetched |-> FALSE,
                               CacheUpdated |-> cache.modTime]
                   /\ UNCHANGED files
              ELSE IF ~fetchOk
              THEN /\ load' = [call |-> call, Source |-> "error",
                               reader |-> None, fetched |-> TRUE,
                               CacheUpdated |-> NoTime]
                   /\ UNCHANGED files
              ELSE /\ load' = [call |-> call, Source |-> "live",
                               reader |-> body, fetched |-> TRUE,
                               CacheUpdated |-> wrapped.cacheUpdated]
                   /\ files' = wrapped.files
    /\ UNCHANGED <<pc, mainVars, panicOn, argText, argQuery, argDist, argLenA,
                   argLenB, result, runOpts, now, setupVars>>

\* an hour passes
Tick ==
    /\ pc = "ready"
    /\ now < MaxClock
    /\ now' = now + 1
    /\ UNCHANGED <<pc, mainVars, panicOn, argText, argQuery, argDist, argLenA,
                   argLenB, result, runOpts, files, load, setupVars>>

NextCache == MergeCacheOptions \/ LoadAreaReader \/ Tick

SpecCache == InitCache /\ [][NextCache]_vars

----------------------------------------------------------------------------
(* promptAndSaveConfig: the interactive setup.  A line of standard input is *)
(* a text in which a word that is never split is one character: "https:",   *)
(* "kvartersmenyn.se", "index.php", "city", "area", the city slugs "g" and   *)
(* "s", the area slug "x" and the answer "y", besides "/" and " ".           *)

\* strings.Split(s, sep) for a separator of one character
RECURSIVE SplitOnFrom(_, _, _, _)
SplitOnFrom(s, sep, part, parts) ==
    IF s = <<>> THEN Append(parts, part)
    ELSE IF Head(s) = sep
    THEN SplitOnFrom(Tail(s), sep, <<>>, Append(parts, part))
    ELSE SplitOnFrom(Tail(s), sep, Append(part, Head(s)), parts)

SplitOn(s, sep) == SplitOnFrom(s, sep, <<>>, <<>>)

\* main.go:480-485: what follows the first occurrence of marker, if any
CutAfter(raw, marker) ==
    LET idx == Index(raw, marker)
    IN IF idx >= 0 THEN SubSeq(raw, idx + Len(marker) + 1, Len(raw)) ELSE raw

\* main.go:494-505: the loop over the parts, from part i on
RECURSIVE scanParts(_, _, _, _)
scanParts(parts, i, city, area) ==
    IF i > Len(parts) THEN [city |-> city, area |-> area]
    ELSE IF parts[i] = <<"city">>
    THEN scanParts(parts, i + 1,
                   IF i + 1 <= Len(parts) THEN parts[i + 1] ELSE city, area)
    ELSE IF parts[i] = <<"area">>
    THEN scanParts(parts, i + 1, city,
                   IF i + 1 <= Len(parts) THEN parts[i + 1] ELSE area)
    ELSE scanParts(parts, i + 1, city, area)

\* parseAreaURL
parseAreaURL(input) ==
    LET raw == TrimSpace(input)
        noScheme == TrimPrefix(TrimPrefix(raw, <<"https:", "/", "/">>),
                               <<"http:", "/", "/">>)
        path == CutAfter(CutAfter(noScheme, <<"kvartersmenyn.se", "/">>),
                         <<"index.php", "/">>)
        parts == SplitOn(path, "/")
        found == scanParts(parts, 1, <<>>, <<>>)
        city == IF found.city = <<>> THEN parts[1] ELSE found.city
    IN IF raw = <<>> \/ city = <<>>
       THEN [city |-> <<>>, area |-> <<>>, ok |-> FALSE]
       ELSE [city |-> city, area |-> found.area, ok |-> TRUE]

\* looksLikeURL
looksLikeURL(input) ==
    \/ Contains(input, <<"kvartersmenyn.se", "/">>)
    \/ Contains(input, <<"http:", "/", "/">>)
    \/ Contains(input, <<"https:", "/", "/">>)
    \/ Contains(input, <<"index.php", "/">>)
    \/ Contains(input, <<"/", "area", "/">>)
    \/ Contains(input, <<"area", "/">>)
    \/ Contains(input, <<"/", "city", "/">>)
    \/ Contains(input, <<"city", "/">>)

\* the closure addArea (main.go:350-359), on the locals it captures
addArea(default, list, city, area) ==
    LET newDefault == IF default = <<>> THEN city ELSE default
    IN [defaultCity |-> newDefault,
        areas |-> Append(list,
                     IF city = newDefault
                     THEN [City |-> <<>>, Area |-> area]
                     ELSE [City |-> city, Area |-> area])]

\* main.go:390: the answers that ask for another area
IsYes(moreInput) ==
    moreInput \in {<<"y">>, <<"y", "e", "s">>, <<"j">>, <<"j", "a">>}

\* the lines the user may type: an empty line, the URL of a city, a URL
\* without a path, the URL of another city, the URL of an area, a slug
\* (followed by a space), yes
SetupLines ==
    {<<>>,
     <<"https:", "/", "/", "kvartersmenyn.se", "/", "index.php", "/", "g">>,
     <<"https:", "/", "/">>,
     <<"index.php", "/", "s">>,
     <<"g", "/", "area", "/", "x">>,
     <<"x", " ">>,
     <<"y">>}

\* parseAreaURL and looksLikeURL on the lines the user may type, trimmed as
\* promptAndSaveConfig trims them before the call
ParsedLines == [line \in SetupLines |-> parseAreaURL(TrimSpace(line))]

URLLines == {line \in SetupLines : looksLikeURL(TrimSpace(line))}

\* the places where promptAndSaveConfig reads a line
SetupPrompts == {"url", "slug", "more", "next", "slugNext", "ttl"}

InitSetup ==
    /\ pc = "url"
    /\ argText = <<>>
    /\ result = None
    /\ flagsName = <<>> /\ flagsMenu = <<>> /\ flagsSearch = <<>>
    /\ optsName = <<>> /\ optsMenu = <<>> /\ optsSearch = <<>>
    /\ nameQuery = <<>> /\ menuQuery = <<>> /\ combinedQuery = <<>>
    /\ areaIdx = 0
    /\ parsed = <<>> /\ restaurants = <<>>
    /\ calls = <<>>
    /\ panicOn = {}
    /\ argQuery = <<>> /\ argDist = 0 /\ argLenA = 0 /\ argLenB = 0
    /\ CacheIdle /\ SetupIdle

\* reader.ReadString('\n') at one of the prompts: a line the user typed, or,
\* once standard input is exhausted, the empty string
ReadString ==
    /\ pc \in SetupPrompts
    /\ \E line \in IF reads < MaxReads THEN SetupLines ELSE {<<>>} :
           argText' = line
    /\ reads' = IF reads < MaxReads THEN reads + 1 ELSE reads
    /\ pc' = CASE pc = "url" -> "urlLine"
                [] pc = "slug" -> "slugLine"
                [] pc = "more" -> "moreLine"
                [] pc = "next" -> "nextLine"
                [] pc = "slugNext" -> "slugNextLine"
                [] OTHER -> "ttlLine"
    /\ UNCHANGED <<mainVars, panicOn, argQuery, argDist, argLenA, argLenB,
                   result, cacheVars, setupAreas, setupCity, entered>>

\* main.go:374-385: the line read at the URL prompt; argQuery is the city
\* askAreaSlug is called with
HandleURL ==
    /\ pc = "urlLine"
    /\ LET url == ParsedLines[argText]
           added == addArea(setupCity, setupAreas, url.city, url.area)
       IN IF ~url.ok
          THEN /\ pc' = "url"
               /\ UNCHANGED <<setupCity, setupAreas, entered, argQuery>>
          ELSE IF url.area = <<>>
          THEN /\ setupCity' = url.city
               /\ argQuery' = url.city
               /\ pc' = "slug"
               /\ UNCHANGED <<setupAreas, entered>>
          ELSE /\ setupCity' = added.defaultCity
               /\ setupAreas' = added.areas
               /\ entered' = Append(entered,
                                 [City |-> url.city, Area |-> url.area])
               /\ pc' = "more"
               /\ UNCHANGED argQuery
    /\ UNCHANGED <<mainVars, panicOn, argText, argDist, argLenA, argLenB,
                   result, cacheVars, reads>>

\* askAreaSlug (main.go:361-369), called from the URL prompt or from the
\* prompt for another area
AskAreaSlug ==
    /\ pc \in {"slugLine", "slugNextLine"}
    /\ LET line == TrimSpace(argText)
           added == addArea(setupCity, setupAreas, argQuery, line)
       IN /\ setupCity' = added.defaultCity
          /\ setupAreas' = added.areas
          /\ entered' = Append(entered, [City |-> argQuery, Area |-> line])
    /\ pc' = IF pc = "slugLine" THEN "more" ELSE "url"
    /\ UNCHANGED <<mainVars, panicOn, argText, argQuery, argDist, argLenA,
                   argLenB, result, cacheVars, reads>>

\* main.go:387-392
HandleMore ==
    /\ pc = "moreLine"
    /\ pc' = IF IsYes(TrimSpace(ToLower(argText))) THEN "next" ELSE "ttl"
    /\ UNCHANGED <<mainVars, panicOn, argVars, result>>

\* main.go:394-419: the line read at the prompt for another area; after
\* the inner loop the outer loop starts over at the URL prompt
HandleNext ==
    /\ pc = "nextLine"
    /\ LET line == TrimSpace(argText)
           isURL == argText \in URLLines
           url == ParsedLines[argText]
           target == IF isURL
                     THEN [City |-> url.city, Area |-> url.area]
                     ELSE [City |-> setupCity, Area |-> line]
           added == addArea(setupCity, setupAreas, target.City, target.Area)
       IN IF (isURL /\ ~url.ok) \/ (~isURL /\ setupCity = <<>>)
          THEN /\ pc' = "next"
               /\ UNCHANGED <<setupCity, setupAreas, entered, argQuery>>
          ELSE IF isURL /\ url.area = <<>>
          THEN /\ setupCity' = url.city
               /\ argQuery' = url.city
               /\ pc' = "slugNext"
               /\ UNCHANGED <<setupAreas, entered>>
          ELSE /\ setupCity' = added.defaultCity
               /\ setupAreas' = added.areas
               /\ entered' = Append(entered, target)
               /\ pc' = "url"
               /\ UNCHANGED argQuery
    /\ UNCHANGED <<mainVars, panicOn, argText, argDist, argLenA, argLenB,
                   result, cacheVars, reads>>

\* main.go:422-445: the TTL, the cache directory, and the configuration
\* that is saved and returned
HandleTTL ==
    /\ pc = "ttlLine"
    /\ \E defaultDir \in DefaultDirs :
           LET ttlInput == IF TrimSpace(argText) = <<>> THEN DefaultTTL
                           ELSE TrimSpace(argText)
               cacheDir == IF defaultDir = <<>> THEN <<".cache">>
                           ELSE defaultDir
           IN result' = [City |-> setupCity, Area |-> <<>>,
                         Areas |-> setupAreas, CacheDir |-> cacheDir,
                         CacheTTL |-> ttlInput]
    /\ pc' = "saved"
    /\ UNCHANGED <<mainVars, panicOn, argVars>>

NextSetup ==
    \/ ReadString
    \/ HandleURL
    \/ AskAreaSlug
    \/ HandleMore
    \/ HandleNext
    \/ HandleTTL

SpecSetup == InitSetup /\ [][NextSetup]_vars

\* promptAndSaveConfig is sequential code: it takes its next step whenever
\* it has one
SpecSetupFair == SpecSetup /\ WF_vars(NextSetup)

----------------------------------------------------------------------------
(* Properties of the per-area loop (Spec) *)

\* the queries as the user gave them
GivenName == TrimSpace(flagsName)
GivenMenu == TrimSpace(flagsMenu)
GivenSearch == TrimSpace(flagsSearch)

\* the effective queries under a combined query
EffName == IF GivenName # <<>> THEN GivenName ELSE GivenSearch
EffMenu == IF GivenMenu # <<>> THEN GivenMenu ELSE GivenSearch

\* the filter of the current area has returned
Filtered == pc = "print"

\* the name (the joined menu text) of record r matches query q, with the
\* threshold taken from the length of the normalized query
NameMatchesNorm(r, q) ==
    matchesName(r.Name, ToLower(q),
                fuzzThreshold(ByteLen(normalizeToken(ToLower(q))))).matched
MenuMatches(r, q) ==
    matchesText(ToLower(Join(r.Menu)), ToLower(q), normalizeToken(ToLower(q)),
                fuzzThreshold(ByteLen(normalizeToken(ToLower(q))))).matched
\* the same for the name with the threshold taken from the length of the
\* query as given
NameMatchesRaw(r, q) ==
    matchesName(r.Name, ToLower(q), fuzzThreshold(ByteLen(q))).matched

\* C1: under a combined query that is not empty, the records left by the
\* filter are exactly the records of the page whose name matches the
\* effective name query or whose joined menu text matches the effective menu
\* query.
C1_CombinedIsOr ==
    (Filtered /\ GivenSearch # <<>>) =>
        restaurants = SelectSeq(parsed, LAMBDA r :
                          NameMatchesNorm(r, EffName) \/ MenuMatches(r, EffMenu))

\* a page of two records under a combined query: the first matches on one
\* side only and is kept, the second matches on neither side and is dropped
C1_Witness ==
    /\ pc = "print"
    /\ GivenSearch # <<>>
    /\ Len(parsed) = 2
    /\ NameMatchesNorm(parsed[1], EffName) # MenuMatches(parsed[1], EffMenu)
    /\ ~NameMatchesNorm(parsed[2], EffName)
    /\ ~MenuMatches(parsed[2], EffMenu)
    /\ restaurants = <<parsed[1]>>

\* C2: without a combined query, a name query A and a menu query B both set
\* leave exactly the records whose name matches A and whose menu text
\* matches B; one of them set alone decides alone.
C2_SeparateIsAnd ==
    (Filtered /\ GivenSearch = <<>>) =>
        /\ (GivenName # <<>> /\ GivenMenu # <<>>) =>
               restaurants = SelectSeq(parsed, LAMBDA r :
                                 NameMatchesRaw(r, GivenName)
                                 /\ MenuMatches(r, GivenMenu))
        /\ (GivenName # <<>> /\ GivenMenu = <<>>) =>
               restaurants = SelectSeq(parsed, LAMBDA r :
                                 NameMatchesRaw(r, GivenName))
        /\ (GivenName = <<>> /\ GivenMenu # <<>>) =>
               restaurants = SelectSeq(parsed, LAMBDA r :
                                 MenuMatches(r, GivenMenu))

\* both queries set, no combined query: a record matching both is kept, a
\* record matching the name query only is dropped
C2_Witness ==
    /\ pc = "print"
    /\ GivenSearch = <<>> /\ GivenName # <<>> /\ GivenMenu # <<>>
    /\ Len(parsed) = 2
    /\ NameMatchesRaw(parsed[1], GivenName) /\ MenuMatches(parsed[1], GivenMenu)
    /\ NameMatchesRaw(parsed[2], GivenName) /\ ~MenuMatches(parsed[2], GivenMenu)
    /\ restaurants = <<parsed[1]>>

\* C3: in every iteration the filters are called with the name query given
\* explicitly when there is one and with the combined query otherwise, the
\* same for the menu query, and with the same queries as in the first
\* iteration.
C3_EffectiveQueriesStable ==
    \A k \in 1..Len(calls) :
        /\ calls[k].name = EffName
        /\ calls[k].menu = EffMenu
        /\ GivenName # <<>> => calls[k].name = GivenName
        /\ GivenMenu # <<>> => calls[k].menu = GivenMenu
        /\ calls[k] = calls[1]
        /\ (k = Len(calls) /\ Filtered) =>
               nameQuery = EffName /\ menuQuery = EffMenu

\* the second area has been filtered, under a name query and a combined
\* query that differ and no menu query
C3_Witness ==
    /\ Len(calls) = 2
    /\ Filtered
    /\ GivenName # <<>> /\ GivenSearch # <<>> /\ GivenName # GivenSearch
    /\ GivenMenu = <<>>
    /\ calls[2].name = GivenName
    /\ calls[2].menu = GivenSearch

\* the verdict of a matcher on a field that holds the query neither raw nor
\* normalized, when the library does not fail: the distance is within bounds
DistanceAccepts(normQuery, normField, maxDistance) ==
    /\ RankMatchFold(normQuery, normField) >= 0
    /\ RankMatchFold(normQuery, normField) <= maxDistance

\* what matching the name of r against q comes to when a comparison on which
\* the library fails counts as no match and every other one is evaluated as
\* if nothing had failed
NameVerdict(r, q, maxDistance) ==
    LET lowerName == ToLower(r.Name)
        normName == normalizeToken(lowerName)
        normQuery == normalizeToken(ToLower(q))
    IN \/ Contains(lowerName, ToLower(q))
       \/ normQuery # <<>> /\ Contains(normName, normQuery)
       \/ /\ normName \notin panicOn
          /\ DistanceAccepts(normQuery, normName, maxDistance)

\* the same for the joined menu text of r
MenuVerdict(r, q, maxDistance) ==
    LET text == ToLower(Join(r.Menu))
        normText == normalizeToken(text)
        normQuery == normalizeToken(ToLower(q))
    IN \/ Contains(text, ToLower(q))
       \/ /\ normQuery # <<>>
          /\ \/ Contains(normText, normQuery)
             \/ /\ normText \notin panicOn
                /\ DistanceAccepts(normQuery, normText, maxDistance)

ThresholdOfNorm(q) == fuzzThreshold(ByteLen(normalizeToken(ToLower(q))))

\* the record is kept by the filtering main applies for the queries given
Verdict(r) ==
    IF GivenSearch # <<>>
    THEN \/ NameVerdict(r, EffName, ThresholdOfNorm(EffName))
         \/ MenuVerdict(r, EffMenu, ThresholdOfNorm(EffMenu))
    ELSE /\ GivenName # <<>> =>
                NameVerdict(r, GivenName, fuzzThreshold(ByteLen(GivenName)))
         /\ GivenMenu # <<>> =>
                MenuVerdict(r, GivenMenu, ThresholdOfNorm(GivenMenu))

\* the name comparison of r is one the library fails on, and would have
\* matched by its distance otherwise
NameFaultDropsMatch(r, q, maxDistance) ==
    LET lowerName == ToLower(r.Name)
        normName == normalizeToken(lowerName)
        normQuery == normalizeToken(ToLower(q))
    IN /\ ~Contains(lowerName, ToLower(q))
       /\ ~(normQuery # <<>> /\ Contains(normName, normQuery))
       /\ normName \in panicOn
       /\ DistanceAccepts(normQuery, normName, maxDistance)

\* C9: a panic of the distance computation never leaves the filter; the
\* comparison it happened in counts as no match, and every record is kept or
\* dropped as its other comparisons, evaluated as without the panic, decide.
C9_FaultIsNoMatch ==
    /\ pc # "panic"
    /\ Filtered => restaurants = SelectSeq(parsed, Verdict)

\* a name filter over two records: the library failed on the name of the
\* first, which its distance would have matched, and the record is dropped;
\* the second is matched by its distance and kept
C9_Witness ==
    /\ Filtered
    /\ GivenSearch = <<>> /\ GivenName # <<>> /\ GivenMenu = <<>>
    /\ Len(parsed) = 2
    /\ NameFaultDropsMatch(parsed[1], GivenName,
                           fuzzThreshold(ByteLen(GivenName)))
    /\ normalizeToken(ToLower(parsed[2].Name)) \notin panicOn
    /\ matchesName(parsed[2].Name, ToLower(GivenName),
                   fuzzThreshold(ByteLen(GivenName))).ranked
    /\ restaurants = <<parsed[2]>>

\* C17: when no name, menu or combined query is given, what is handed to
\* the output is the sequence parseRestaurants returned: the same records in
\* the same order.
C17_NoQueryNoFilter ==
    (Filtered /\ GivenName = <<>> /\ GivenMenu = <<>> /\ GivenSearch = <<>>)
        => restaurants = parsed

\* no query, a page of two different records, both handed on in their order
C17_Witness ==
    /\ Filtered
    /\ GivenName = <<>> /\ GivenMenu = <<>> /\ GivenSearch = <<>>
    /\ Len(parsed) = 2
    /\ parsed[1] # parsed[2]
    /\ restaurants = parsed

\* C19: the areas are gone through one after another in their order.  A
\* load starts only at the start of the loop, for the first area, or after
\* the output of the area before; parsing follows the load, filtering the
\* parsing and the output the filtering, all for the same area; the records
\* parsed do not change once filtering has started; and after a failed load
\* or parse nothing happens any more.
C19_OneAreaAtATime ==
    [][/\ pc' = "load" =>
              \/ pc = "start" /\ areaIdx' = 1
              \/ pc = "print" /\ areaIdx' = areaIdx + 1
       /\ pc' = "parse" => pc = "load" /\ areaIdx' = areaIdx
       /\ pc' = "filter" => pc = "parse" /\ areaIdx' = areaIdx
       /\ pc' = "print" =>
              pc = "filter" /\ areaIdx' = areaIdx /\ parsed' = parsed
       /\ calls' # calls => pc = "filter" /\ Len(calls') = areaIdx
       /\ pc # "fatal"]_vars

\* the first area was gone through to its output, the load of the second
\* failed and the run has ended
C19_Witness ==
    /\ pc = "fatal"
    /\ areaIdx = 2
    /\ Len(calls) = 1
    /\ parsed = <<>>

\* the filtering main has applied in this iteration, on other records
AppliedFilter(rs) ==
    IF combinedQuery # <<>> THEN filterCombined(rs, nameQuery, menuQuery)
    ELSE filterSeparate(rs, nameQuery, menuQuery)

\* the record is kept when it is the only one of its batch
KeptAlone(r) == AppliedFilter(<<r>>).records = <<r>>

\* C24: what the name filter, the menu filter, both in turn or the combined
\* filter return is a subsequence of the records they were given: the
\* records kept are those of the batch that would be kept alone, under the
\* same queries, in the order of the batch and each one unchanged; a record
\* alone is returned as it is or not at all.
C24_FilterIsSubsequence ==
    Filtered =>
        /\ restaurants = SelectSeq(parsed, KeptAlone)
        /\ \A i \in 1..Len(parsed) :
               AppliedFilter(<<parsed[i]>>).records
                   \in {<<>>, <<parsed[i]>>}

\* a query is set and the page has two different records, both
\* kept, in the order of the page
C24_Witness ==
    /\ Filtered
    /\ GivenName # <<>> \/ GivenMenu # <<>> \/ GivenSearch # <<>>
    /\ Len(parsed) = 2
    /\ parsed[1] # parsed[2]
    /\ restaurants = parsed

\* a is a subsequence of b
RECURSIVE IsSubsequence(_, _)
IsSubsequence(a, b) ==
    IF a = <<>> THEN TRUE
    ELSE IF b = <<>> THEN FALSE
    ELSE IF Head(a) = Head(b) THEN IsSubsequence(Tail(a), Tail(b))
    ELSE IsSubsequence(a, Tail(b))

\* the combined queries that can be added: those of --search, not empty
AddedSearches == {TrimSpace(f) : f \in FlagValues} \ {<<>>}

\* C26: with a name query and a menu query both given, every record the
\* run without a combined query keeps is kept by the run with a combined
\* query added to the same two queries: seen from the run without, for
\* every combined query that can be added, and seen from the run with.
C26_SearchNeverRemoves ==
    (Filtered /\ GivenName # <<>> /\ GivenMenu # <<>>) =>
        /\ GivenSearch = <<>> =>
               \A added \in AddedSearches :
                   IsSubsequence(restaurants,
                       filterCombined(parsed,
                           effectiveQuery(GivenName, added),
                           effectiveQuery(GivenMenu, added)).records)
        /\ GivenSearch # <<>> =>
               IsSubsequence(
                   filterSeparate(parsed, GivenName, GivenMenu).records,
                   restaurants)

\* name, menu and combined query are given; the first record matches both
\* the name and the menu query and is kept, as without the combined query;
\* the second matches the name query only and is kept too
C26_Witness ==
    /\ Filtered
    /\ GivenName # <<>> /\ GivenMenu # <<>> /\ GivenSearch # <<>>
    /\ Len(parsed) = 2
    /\ filterSeparate(parsed, GivenName, GivenMenu).records = <<parsed[1]>>
    /\ restaurants = parsed

----------------------------------------------------------------------------
(* Properties of mergeOptions (SpecMerge) *)

\* a flag or a configuration field gives a value: it is not blank
Given(value) == TrimSpace(value) # <<>>

\* the areas of the flags, each with the city of the flags
FlagAreas ==
    [i \in 1..Len(argText.flags.Areas) |->
        [City |-> TrimSpace(argText.flags.City),
         Area |-> argText.flags.Areas[i]]]

\* flag, else configuration, else default, for the three settings
DirByPrecedence ==
    IF Given(argText.flags.CacheDir) THEN argText.flags.CacheDir
    ELSE IF Given(argText.cfg.CacheDir) THEN argText.cfg.CacheDir
    ELSE argText.defaultDir

TTLTextByPrecedence ==
    IF Given(argText.flags.CacheTTL) THEN argText.flags.CacheTTL
    ELSE IF Given(argText.cfg.CacheTTL) THEN argText.cfg.CacheTTL
    ELSE DefaultTTL

AreasByPrecedence ==
    IF argText.flags.Areas # <<>> THEN FlagAreas
    ELSE IF Given(argText.flags.City)
    THEN <<[City |-> TrimSpace(argText.flags.City), Area |-> <<>>]>>
    ELSE configAreas(argText.cfg)

\* C20 as stated: the options mergeOptions returns have the cache directory,
\* the cache TTL and the areas of the flags when the flags give them, else
\* those of the configuration when it gives them, and the default only when
\* neither does.
C20_FlagsThenConfigThenDefault ==
    pc = "merged" =>
        /\ result.opts.CacheDir = DirByPrecedence
        /\ parseCacheTTL(TTLTextByPrecedence).ok
        /\ result.opts.CacheTTL = parseCacheTTL(TTLTextByPrecedence).dur
        /\ result.opts.Areas = AreasByPrecedence

\* C20 as amended: the same, but a TTL of the configuration that cannot be
\* parsed gives the default of 6 hours; and mergeOptions fails only for
\* --area without a city, or when the TTL text cannot be parsed and
\* --cache-ttl was passed, be it blank.
C20_UnparsedConfigTTLIsDefault ==
    /\ pc = "merged" =>
           /\ result.opts.CacheDir = DirByPrecedence
           /\ result.opts.CacheTTL =
                  IF parseCacheTTL(TTLTextByPrecedence).ok
                  THEN parseCacheTTL(TTLTextByPrecedence).dur
                  ELSE DefaultTTLHours
           /\ ~parseCacheTTL(TTLTextByPrecedence).ok =>
                  argText.flags.CacheTTL = <<>>
           /\ result.opts.Areas = AreasByPrecedence
    /\ pc = "fatal" =>
           \/ argText.flags.Areas # <<>> /\ ~Given(argText.flags.City)
           \/ /\ argText.flags.CacheTTL # <<>>
              /\ ~parseCacheTTL(TTLTextByPrecedence).ok

\* flags and configuration both give a cache directory and the flag's is
\* taken; only the configuration gives a TTL, of 11 hours, and it is taken;
\* the flags give a city and no area, the configuration has areas, and the
\* city of the flags is the one target
C20_Witness ==
    /\ pc = "merged"
    /\ Given(argText.flags.CacheDir) /\ Given(argText.cfg.CacheDir)
    /\ result.opts.CacheDir = argText.flags.CacheDir
    /\ ~Given(argText.flags.CacheTTL) /\ Given(argText.cfg.CacheTTL)
    /\ result.opts.CacheTTL = 11
    /\ argText.flags.Areas = <<>> /\ Given(argText.flags.City)
    /\ Len(configAreas(argText.cfg)) > 0
    /\ result.opts.Areas =
           <<[City |-> TrimSpace(argText.flags.City), Area |-> <<>>]>>

\* C22 as stated: with --city given and no --area, main does not ask for a
\* configuration, and the options it goes on with have exactly one target,
\* the whole city of the flag, whatever the configuration holds.
C22_CityFlagIsOneTarget ==
    (pc # "config" /\ Given(argText.flags.City) /\ argText.flags.Areas = <<>>)
        => /\ pc # "prompted"
           /\ pc = "merged" =>
                  result.opts.Areas =
                      <<[City |-> TrimSpace(argText.flags.City),
                         Area |-> <<>>]>>

\* the city an entry of the areas list resolves to: its own when not blank,
\* else the top-level one
ResolvedCity(cfg, entry) ==
    IF Given(entry.City) THEN TrimSpace(entry.City) ELSE TrimSpace(cfg.City)

\* the targets of a configuration as C23 describes them
ResolvedTargets(cfg) ==
    LET Usable(entry) == ResolvedCity(cfg, entry) # <<>>
        usable == SelectSeq(cfg.Areas, Usable)
    IN IF usable = <<>> /\ Given(cfg.City)
       THEN <<[City |-> TrimSpace(cfg.City), Area |-> TrimSpace(cfg.Area)]>>
       ELSE [i \in 1..Len(usable) |->
                [City |-> ResolvedCity(cfg, usable[i]),
                 Area |-> TrimSpace(usable[i].Area)]]

\* C23: when the flags give neither city nor area, the targets of the run
\* are the entries of the configuration's areas list in order, each with its
\* own city when that is not blank and the top-level city otherwise, without
\* the entries that have no city; when no entry is usable and a top-level
\* city is set, they are the one target of that city with the top-level area
\* (the whole city when there is none); and main asks for a configuration
\* only when there are no such targets.
C23_AreasResolvedInOrder ==
    /\ (pc = "merged" /\ argText.flags.Areas = <<>>
            /\ ~Given(argText.flags.City))
           => result.opts.Areas = ResolvedTargets(argText.cfg)
    /\ pc = "prompted" => ResolvedTargets(argText.cfg) = <<>>

\* a list of two entries under the top-level city "A": the first has its own
\* city, the second inherits
C23_Witness ==
    /\ pc = "merged"
    /\ argText.flags.Areas = <<>> /\ ~Given(argText.flags.City)
    /\ argText.cfg.City = <<"A">>
    /\ Len(argText.cfg.Areas) = 2
    /\ result.opts.Areas = <<[City |-> <<"a">>, Area |-> <<>>],
                             [City |-> <<"A">>, Area |-> <<"a">>]>>

----------------------------------------------------------------------------
(* Properties of loadAreaReader and the cache (SpecCache) *)

\* loadAreaReader has been called; load tells of the last call
Loaded == pc = "ready" /\ load.Source # "none"

\* C21 as stated: when --cache-dir is the empty string, no call of
\* loadAreaReader returns a reader of a cache file and none writes one,
\* whatever directory the configuration or the default gives.
C21_EmptyFlagDisablesCache ==
    (pc = "ready" /\ argText.flags.CacheDir = <<>>) =>
        /\ DOMAIN files = {}
        /\ load.Source # "cache"

\* the cache file of the last call
LoadPath ==
    cachePathOf(runOpts.CacheDir, load.call.area.City,
                cacheKeyOf(load.call.area, load.call.day))

\* when the last call started, the cache was in use and held a file for
\* the target and day whose age was at most the TTL
WasFresh ==
    /\ runOpts.CacheDir # <<>> /\ runOpts.CacheTTL > 0
    /\ load.call.age # NoTime /\ load.call.age <= runOpts.CacheTTL

\* C25: a call of loadAreaReader that finds, in a cache directory that is
\* not empty and under a positive TTL, a file for its target and day whose
\* age is at most the TTL returns that file without fetching and reports
\* the source "cache"; every other call fetches: when the directory is
\* empty or the TTL is zero or less, when there is no file, and when the
\* age of the file is above the TTL; and a fetch whose write succeeded
\* leaves the fetched page in the file, written at the time of the call, so
\* that the next calls find it.
C25_FreshFromCacheElseLive ==
    Loaded =>
        /\ WasFresh =>
               /\ load.Source = "cache" /\ ~load.fetched
               /\ files[LoadPath].page = load.reader
               /\ load.call.at - files[LoadPath].modTime = load.call.age
        /\ ~WasFresh => load.fetched /\ load.Source \in {"live", "error"}
        /\ (load.Source = "live" /\ load.CacheUpdated # NoTime) =>
               /\ LoadPath \in DOMAIN files
               /\ files[LoadPath] =
                      [modTime |-> load.call.at,
                       page |-> PageOf(load.call.area, load.call.day)]

\* a call an hour after the fetch that wrote the file, under a TTL of an
\* hour, was served the page from the file
C25_Witness ==
    /\ Loaded
    /\ runOpts.CacheTTL = 1
    /\ load.call.age = 1
    /\ load.Source = "cache"
    /\ load.reader = PageOf(load.call.area, load.call.day)

\* C27 as stated: a call served from the cache is served a page that was
\* fetched for its own target and day.
C27_CacheServesOwnPage ==
    (Loaded /\ load.Source = "cache") =>
        load.reader = PageOf(load.call.area, load.call.day)

----------------------------------------------------------------------------
(* Properties of promptAndSaveConfig (SpecSetup, SpecSetupFair) *)

\* C28 as stated: the configuration the setup saves resolves, through
\* configAreas, to the targets that were entered, in the order they were
\* entered, each with the city it was entered under.
C28_SavedConfigResolvesToEntered ==
    pc = "saved" => configAreas(result) = entered

\* C29 as stated: the setup returns, whatever is on standard input, once
\* standard input is exhausted.
C29_SetupTerminates == <>(pc = "saved")

----------------------------------------------------------------------------
(* Properties of parseRestaurants (SpecParse) *)

\* the block has a name: the text of its name element is not empty once
\* trimmed
HasName(block) == TrimSpace(block.name) # <<>>

NamedBlocks == SelectSeq(argText.blocks, HasName)

\* C11: every record parseRestaurants returns has a name that is not empty;
\* there is one record for every block with a name and none for a block
\* without; and the records are those of the document without its nameless
\* blocks.
C11_NamelessDropped ==
    (pc = "returned" /\ ~result.err) =>
        /\ \A i \in 1..Len(result.restaurants) :
               result.restaurants[i].Name # <<>>
        /\ Len(result.restaurants) = Len(NamedBlocks)
        /\ result.restaurants =
               parseRestaurants([argText EXCEPT !.blocks = NamedBlocks])
                   .restaurants

\* a block whose name is white space only, with price, menu, address and
\* link, before a block with a name: one record, that of the second block
C11_Witness ==
    /\ pc = "returned"
    /\ Len(argText.blocks) = 2
    /\ argText.blocks[1].name = <<" ">>
    /\ argText.blocks[1].price # <<>>
    /\ HasName(argText.blocks[2])
    /\ Len(result.restaurants) = 1
    /\ result.restaurants[1].Name = TrimSpace(argText.blocks[2].name)

\* C12: the records parseRestaurants returns are those of the blocks with a
\* name, one each, in the order of the blocks in the document; a document
\* that can be read gives no error, and one without a block gives no record.
C12_DocumentOrder ==
    pc = "returned" =>
        /\ argText.read = "ok" => ~result.err
        /\ Len(result.restaurants) = Len(NamedBlocks)
        /\ \A k \in 1..Len(NamedBlocks) :
               result.restaurants[k] = blockRecord(NamedBlocks[k]).record
        /\ argText.blocks = <<>> => result.restaurants = <<>>

\* two blocks with different names: two records, in the order of the blocks
C12_Witness ==
    /\ pc = "returned"
    /\ Len(argText.blocks) = 2
    /\ HasName(argText.blocks[1]) /\ HasName(argText.blocks[2])
    /\ TrimSpace(argText.blocks[1].name) # TrimSpace(argText.blocks[2].name)
    /\ Len(result.restaurants) = 2
    /\ result.restaurants[1].Name = TrimSpace(argText.blocks[1].name)
    /\ result.restaurants[2].Name = TrimSpace(argText.blocks[2].name)

\* C13: on bytes that are no markup parseRestaurants returns an error and no
\* records, and whenever it returns an error it returns no records.
C13_GarbageFails ==
    pc = "returned" =>
        /\ ~argText.markup => result.err /\ result.restaurants = <<>>
        /\ result.err => result.restaurants = <<>>

----------------------------------------------------------------------------
(* Properties of splitAddressAndPhone (SpecAddr) *)

\* the address text as splitAddressAndPhone is given it, and the text it
\* splits: without one leading label, trimmed
AddrLine == normalizeSpaces(argText)
AddrStripped == TrimSpace(TrimPrefix(AddrLine, ADRESS))

\* the marker, in any letter case, starts at character i of the text
MarkerAt(i) ==
    /\ i + Len(TEL) - 1 <= Len(AddrStripped)
    /\ ToUpper(SubSeq(AddrStripped, i, i + Len(TEL) - 1)) = TEL

HasMarker == \E i \in 1..Len(AddrStripped) : MarkerAt(i)

FirstMarker ==
    CHOOSE i \in 1..Len(AddrStripped) :
        MarkerAt(i) /\ \A j \in 1..(i - 1) : ~MarkerAt(j)

\* C14: splitAddressAndPhone returns; with a marker in the text the phone is
\* the normalized text after the first marker and the address the trimmed
\* text before it; without one the address is the text and the phone is
\* empty.
C14_SplitAtMarker ==
    pc # "call" =>
        /\ ~result.panicked
        /\ HasMarker =>
               /\ result.phone =
                      normalizeSpaces(SubSeq(AddrStripped,
                                             FirstMarker + Len(TEL),
                                             Len(AddrStripped)))
               /\ result.address =
                      TrimSpace(SubSeq(AddrStripped, 1, FirstMarker - 1))
        /\ ~HasMarker =>
               result.address = AddrStripped /\ result.phone = <<>>

\* the label as the specification spells it, and the label in lower case
ADDRESS == <<"A", "D", "D", "R", "E", "S", "S", ":">>
LowerADRESS == <<"a", "d", "r", "e", "s", "s", ":">>

\* C15 as stated: the address never begins with the label "ADDRESS:", and a
\* text that begins with the label in lower case keeps it.
C15_LabelStripped ==
    pc = "returned" =>
        /\ ~HasPrefix(result.address, ADDRESS)
        /\ HasPrefix(AddrLine, LowerADRESS) =>
               HasPrefix(result.address, LowerADRESS)

\* C15 as amended: the label that is removed is "ADRESS:", once; the address
\* begins with it only when the text still begins with it after that; and a
\* text that begins with "ADDRESS:" or with the label in lower case keeps
\* it.
C15_OneLabelStripped ==
    pc = "returned" =>
        /\ HasPrefix(result.address, ADRESS) => HasPrefix(AddrStripped, ADRESS)
        /\ HasPrefix(AddrLine, ADDRESS) => HasPrefix(result.address, ADDRESS)
        /\ HasPrefix(AddrLine, LowerADRESS) =>
               HasPrefix(result.address, LowerADRESS)

\* a text with the label, an address and a phone: the address is there and
\* is without the label
C15_Witness ==
    /\ pc = "returned"
    /\ HasPrefix(AddrLine, ADRESS)
    /\ ~HasPrefix(AddrStripped, ADRESS)
    /\ result.address # <<>>
    /\ result.phone # <<>>
    /\ ~HasPrefix(result.address, ADRESS)

----------------------------------------------------------------------------
(* Properties of extractMenuLines (SpecMenu) *)

\* the text of the nodes with a mark "BR" for every br element
RECURSIVE InlineText(_)
InlineText(nodes) ==
    IF nodes = <<>> THEN <<>>
    ELSE LET node == Head(nodes)
         IN (IF node.type = "br" THEN <<"BR">>
             ELSE node.data \o InlineText(node.children))
            \o InlineText(Tail(nodes))

\* the segments of a text between the marks
RECURSIVE BreakSegments(_, _, _)
BreakSegments(text, segment, segments) ==
    IF text = <<>> THEN Append(segments, segment)
    ELSE IF Head(text) = "BR"
    THEN BreakSegments(Tail(text), <<>>, Append(segments, segment))
    ELSE BreakSegments(Tail(text), Append(segment, Head(text)), segments)

\* the segments between the br elements, normalized, the empty ones dropped
LinesBetweenBreaks ==
    LET segments == BreakSegments(InlineText(argText), <<>>, <<>>)
    IN SelectSeq([i \in 1..Len(segments) |-> normalizeSpaces(segments[i])],
                 IsNotEmpty)

\* the line is clean: not empty, no line feed, no non-breaking space, no two
\* spaces in a row, no white space at either end
CleanLine(line) ==
    /\ line # <<>>
    /\ \A i \in 1..Len(line) : line[i] \notin {"LF", "NBSP"}
    /\ \A i \in 1..(Len(line) - 1) : ~(line[i] = " " /\ line[i + 1] = " ")
    /\ ~IsSpace(line[1]) /\ ~IsSpace(line[Len(line)])

\* C16: the menu lines are the segments of the paragraph's text between its
\* br elements, in their order, normalized and without the empty ones, and
\* every line is clean.
C16_LinesAreBreakSegments ==
    pc = "returned" =>
        /\ result = LinesBetweenBreaks
        /\ \A i \in 1..Len(result) : CleanLine(result[i])

----------------------------------------------------------------------------
(* Properties of the matchers (SpecMatch) *)

LowerField == ToLower(argText)
LowerQuery == ToLower(argQuery)
NormField == normalizeToken(LowerField)
NormQuery == normalizeToken(LowerQuery)

\* C4: when the lower-cased query is a substring of the lower-cased field,
\* the name matcher and the menu-text matcher both return true, whatever the
\* threshold and whatever the distance computation does.
C4_SubstringMatches ==
    (pc = "returned" /\ Contains(LowerField, LowerQuery)) =>
        result.name.matched /\ result.text.matched

\* the query is a substring of the field up to case only, the library fails
\* on the field, and both matchers returned true
C4_Witness ==
    /\ pc = "returned"
    /\ argQuery # <<>>
    /\ Contains(LowerField, LowerQuery)
    /\ ~Contains(argText, argQuery)
    /\ NormField \in panicOn
    /\ result.name.matched /\ result.text.matched

\* C5: on a field that holds the query neither raw nor normalized, a matcher
\* returns true exactly when the distance computation yields a distance that
\* is not negative and not above the threshold.
C5_DistanceDecides ==
    (pc = "returned" /\ ~Contains(LowerField, LowerQuery)
                 /\ ~Contains(NormField, NormQuery)) =>
        LET accepted == /\ NormField \notin panicOn
                        /\ DistanceAccepts(NormQuery, NormField, argDist)
        IN /\ result.name.matched = accepted
           /\ result.text.matched = accepted

\* no containment, a distance between 1 and the threshold: both matchers
\* returned true
C5_Witness ==
    /\ pc = "returned"
    /\ ~Contains(LowerField, LowerQuery)
    /\ ~Contains(NormField, NormQuery)
    /\ panicOn = {}
    /\ RankMatchFold(NormQuery, NormField) >= 1
    /\ RankMatchFold(NormQuery, NormField) <= argDist
    /\ result.name.matched /\ result.text.matched

\* C8: on the same field, query and threshold the name matcher and the
\* menu-text matcher return the same boolean, also when the normalized query
\* is empty.
C8_SameAlgorithm ==
    pc = "returned" => result.name.matched = result.text.matched

\* the containment tiers of a matcher on the field and the query at hand
RawTier == Contains(LowerField, LowerQuery)
NormTier == NormQuery # <<>> /\ Contains(NormField, NormQuery)

\* C18: a matcher calls the distance computation only when the raw and the
\* normalized containment test have both failed; when one of them succeeds
\* it returns true without the call.
C18_DistanceComesLast ==
    pc = "returned" =>
        /\ result.name.ranked => ~RawTier /\ ~NormTier
        /\ result.text.ranked => ~RawTier /\ ~NormTier
        /\ (RawTier \/ NormTier) =>
               /\ result.name.matched /\ ~result.name.ranked
               /\ result.text.matched /\ ~result.text.ranked

\* a query the field holds only once normalized: both matchers returned
\* true and neither called the distance computation
C18_Witness ==
    /\ pc = "returned"
    /\ ~RawTier /\ NormTier
    /\ result.name.matched /\ ~result.name.ranked
    /\ result.text.matched /\ ~result.text.ranked

----------------------------------------------------------------------------
(* Properties of fuzzThreshold (SpecLen) *)

\* C6: fuzzThreshold does not decrease when the length grows, and is 1 up
\* to length 3, 2 from 4 to 6 and 3 from 7 on.
C6_ThresholdSteps ==
    pc = "returned" =>
        /\ argLenA <= argLenB => result.a <= result.b
        /\ argLenA \in 0..3 => result.a = 1
        /\ argLenA \in 4..6 => result.a = 2
        /\ argLenA >= 7 => result.a = 3

\* the two lengths on either side of the first step
C6_Witness ==
    /\ pc = "returned"
    /\ argLenA = 3 /\ argLenB = 4
    /\ result.a = 1 /\ result.b = 2

----------------------------------------------------------------------------
(* Properties of normalizeToken and of the thresholds (SpecText) *)

\* lower-casing lengthens no letter of the text
NoLetterGrows(s) ==
    \A i \in 1..Len(s) :
        IsLetter(s[i]) => Width(ToLowerRune(s[i])) <= Width(s[i])

\* the lengths the three filters measure
MeasuresAsStated ==
    /\ result.nameOnly = fuzzThreshold(ByteLen(argText))
    /\ result.menu = fuzzThreshold(ByteLen(normalizeToken(ToLower(argText))))
    /\ result.combined =
           fuzzThreshold(ByteLen(normalizeToken(ToLower(argText))))

\* C7 as stated: the name-only filter measures the query as given, the menu
\* and the combined filter measure the normalized query, and the name-only
\* threshold is never smaller than the other two.
C7_NeverSmaller ==
    pc = "thresholds" =>
        /\ MeasuresAsStated
        /\ result.nameOnly >= result.menu
        /\ result.nameOnly >= result.combined

\* C7 as amended: the same, the name-only threshold being never smaller for
\* a query none of whose letters has a longer lower-case form.
C7_NeverSmallerUnlessLetterGrows ==
    pc = "thresholds" =>
        /\ MeasuresAsStated
        /\ NoLetterGrows(argText) =>
               /\ result.nameOnly >= result.menu
               /\ result.nameOnly >= result.combined

\* a query with a character that is neither letter nor digit, and a
\* name-only threshold above the other two
C7_Witness ==
    /\ pc = "thresholds"
    /\ NoLetterGrows(argText)
    /\ \E i \in 1..Len(argText) : ~IsLetterOrDigit(argText[i])
    /\ result.nameOnly > result.menu
    /\ result.nameOnly > result.combined

\* C10: normalizeToken applied to its own result returns that result.
C10_NormalizeIdempotent ==
    pc = "renormalized" => result[2] = result[1]

\* a text that normalizeToken changes, both by dropping and by lower-casing
C10_Witness ==
    /\ pc = "renormalized"
    /\ result[1] # <<>>
    /\ Len(result[1]) < Len(argText)
    /\ \E i \in 1..Len(argText) :
           IsLetter(argText[i]) /\ ToLowerRune(argText[i]) # argText[i]
    /\ result[2] = result[1]

====
